---- MODULE Spec2Model ----
(***************************************************************************)
(* State-machine model of the autonomous conversation engine               *)
(* (CodeFiles/conversation_orchestrator.py, class ConversationOrchestrator)*)
(* of the responder selector (CodeFiles/smart_character_selector.py, class *)
(* SmartCharacterSelector) and of the group store (CodeFiles/maincode.py,  *)
(* GroupChatManager.create_group_chat).                                    *)
(*                                                                         *)
(* Representation:                                                         *)
(*  - Python str values that the code inspects (messages, replies, names,  *)
(*    topics) are sequences of one-character strings, so that lower(),     *)
(*    strip(), slicing and substring search are computed, not assumed.     *)
(*  - A config dict is a heap object: `configs` maps a reference to the    *)
(*    dict's contents and `active_autonomous_chats` maps a group id to a   *)
(*    reference, because start_autonomous_conversation stores the caller's *)
(*    dict itself (no copy).                                               *)
(*  - current_round is a float advanced by 0.5; it is stored here as the   *)
(*    number of half rounds (0.5 and its multiples are exact in binary     *)
(*    floating point), so round r is the integer 2r.                       *)
(*  - Timestamps (started_at, timestamp) are written by the code but never *)
(*    read by it; they are left out of the state.                          *)
(*  - `group_chats` is st.session_state.group_chats, a dict from group id  *)
(*    to the stored group chat.                                            *)
(***************************************************************************)
EXTENDS Integers, Sequences, FiniteSets, TLC

VARIABLES configs, active_autonomous_chats, last, group_chats

vars == <<configs, active_autonomous_chats, last, group_chats>>

\* Python's None; also "key absent" in a dict modelled as a total function.
None == "None"

(***************************************************************************)
(* Bounds of the model                                                     *)
(***************************************************************************)
\* No turn is generated for a config dict that has recorded this many turns
\* (its current_round, in half rounds, has reached MaxTurns).
MaxTurns == 5

\* Longest conversation_history handed to should_end_conversation on its own.
MaxEndHistory == 5

\* Group identifiers of the registry and the groups whose conversations the
\* behaviours of Spec drive; the references of config dicts and the ones
\* the behaviours of Spec use.
Groups == {"g1", "g2"}
MainGroups == {"g1"}
ConfigRefs == {"c1", "c2"}
MainRefs == {"c1"}

(***************************************************************************)
(* Text helpers (str methods used by the code)                             *)
(***************************************************************************)
UpperLetters ==
    <<"A","B","C","D","E","F","G","H","I","J","K","L","M",
      "N","O","P","Q","R","S","T","U","V","W","X","Y","Z">>

LowerLetters ==
    <<"a","b","c","d","e","f","g","h","i","j","k","l","m",
      "n","o","p","q","r","s","t","u","v","w","x","y","z">>

\* the lower-case letter of each upper-case letter
UpperToLower ==
    [c \in {UpperLetters[i] : i \in 1..26} |->
        LowerLetters[CHOOSE i \in 1..26 : UpperLetters[i] = c]]

LowerChar(c) == IF c \in DOMAIN UpperToLower THEN UpperToLower[c] ELSE c

\* str.lower()
Lower(s) == [i \in 1..Len(s) |-> LowerChar(s[i])]

IsSpace(c) == c = " "

\* str.strip()
Strip(s) ==
    LET keep == {i \in 1..Len(s) : ~IsSpace(s[i])}
    IN  IF keep = {} THEN <<>>
        ELSE SubSeq(s, CHOOSE i \in keep : \A j \in keep : i <= j,
                       CHOOSE i \in keep : \A j \in keep : i >= j)

\* positions where sub occurs in s
Occurrences(sub, s) ==
    {i \in 1..(Len(s) - Len(sub) + 1) : SubSeq(s, i, i + Len(sub) - 1) = sub}

\* Python's `sub in s`
Contains(sub, s) == Occurrences(sub, s) # {}

\* Python's s[-n:]
LastN(s, n) == IF Len(s) <= n THEN s ELSE SubSeq(s, Len(s) - n + 1, Len(s))

\* Python's s[:n]
FirstN(s, n) == IF Len(s) <= n THEN s ELSE SubSeq(s, 1, n)

\* set(list)
Range(s) == {s[i] : i \in 1..Len(s)}

(***************************************************************************)
(* Program constants of ConversationOrchestrator                           *)
(***************************************************************************)
DebateMaxRounds == 8
DiscussionMaxRounds == 6
\* recent_responses = conversation_history[-4:]
RecentWindow == 4
\* len(unique) < len(texts) * 0.7, kept exact as 10 * unique < 7 * len
RepetitionNum == 7
RepetitionDen == 10
\* current_round counts half rounds: one round is two of them, a turn adds one
HalvesPerRound == 2
TurnStep == 1

\* self.debate_triggers: a literal followed by (.+), or (.+) vs (.+)
debate_triggers ==
    << [kind |-> "after", lit |-> <<"d","e","b","a","t","e"," ","a","b","o","u","t"," ">>],
       [kind |-> "after", lit |-> <<"a","r","g","u","e"," ","a","b","o","u","t"," ">>],
       [kind |-> "after", lit |-> <<"d","i","s","c","u","s","s"," ">>],
       [kind |-> "after", lit |-> <<"w","h","a","t"," ","d","o"," ","y","o","u"," ",
                                    "t","h","i","n","k"," ","a","b","o","u","t"," ">>],
       [kind |-> "between", lit |-> <<" ","v","s"," ">>],
       [kind |-> "after", lit |-> <<"f","i","g","h","t"," ","a","b","o","u","t"," ">>],
       [kind |-> "after", lit |-> <<"t","a","l","k"," ","a","b","o","u","t"," ">>] >>

discussion_keywords ==
    { <<"d","i","s","c","u","s","s">>, <<"t","a","l","k">>, <<"c","h","a","t">>,
      <<"c","o","n","v","e","r","s","a","t","i","o","n">> }

interruption_keywords ==
    { <<"s","t","o","p">>, <<"e","n","o","u","g","h">>, <<"p","a","u","s","e">>,
      <<"e","n","d">>, <<"q","u","i","t">>, <<"f","i","n","i","s","h">> }

(***************************************************************************)
(* re.search(pattern, s) for the trigger patterns. `.` matches any         *)
(* character but a newline, and the messages of the model hold none.       *)
(* The result is <<TRUE, group(1)>> on a match and <<FALSE, <<>>>> if none.*)
(***************************************************************************)
MinOf(S) == CHOOSE i \in S : \A j \in S : i <= j
MaxOf(S) == CHOOSE i \in S : \A j \in S : i >= j

re_search(pattern, s) ==
    IF pattern.kind = "after"
    THEN \* leftmost occurrence of the literal with at least one character
         \* after it; the greedy group runs to the end of the text
         LET occ == {i \in Occurrences(pattern.lit, s) : i + Len(pattern.lit) <= Len(s)}
         IN  IF occ = {} THEN <<FALSE, <<>>>>
             ELSE <<TRUE, SubSeq(s, MinOf(occ) + Len(pattern.lit), Len(s))>>
    ELSE \* (.+) lit (.+): the match starts at the first character and the
         \* greedy first group backtracks to the last usable literal
         LET occ == {i \in Occurrences(pattern.lit, s) :
                        i >= 2 /\ i + Len(pattern.lit) <= Len(s)}
         IN  IF occ = {} THEN <<FALSE, <<>>>>
             ELSE <<TRUE, SubSeq(s, 1, MaxOf(occ) - 1)>>

(***************************************************************************)
(* Config dicts                                                            *)
(***************************************************************************)
\* a free slot of the heap: no dict lives there
NoConfig ==
    [type |-> None, topic |-> <<>>, participants |-> <<>>, duration |-> None,
     max_rounds |-> 0, current_round |-> 0, last_speaker |-> None,
     conversation_history |-> <<>>]

\* the dict literals returned by detect_autonomous_trigger; last_speaker and
\* conversation_history are absent keys there, read by the code through
\* .get() as None and []
NewConfig(type, topic, participants, max_rounds) ==
    [type |-> type, topic |-> topic, participants |-> participants,
     duration |-> "until_stop", max_rounds |-> max_rounds, current_round |-> 0,
     last_speaker |-> None, conversation_history |-> <<>>]

\* detect_autonomous_trigger testing the discussion keywords before the
\* debate triggers
detect_autonomous_trigger_keywords_first(user_message, character_ids) ==
    LET message_lower == Strip(Lower(user_message))
        hits == {k \in 1..Len(debate_triggers) :
                    re_search(debate_triggers[k], message_lower)[1]}
    IN  IF \E keyword \in discussion_keywords : Contains(keyword, message_lower)
        THEN NewConfig("discussion", user_message, character_ids, DiscussionMaxRounds)
        ELSE IF hits # {}
        THEN LET match == re_search(debate_triggers[MinOf(hits)], message_lower)
             IN  NewConfig("debate", Strip(match[2]),
                           IF Len(character_ids) >= 2 THEN FirstN(character_ids, 2)
                                                      ELSE character_ids,
                           DebateMaxRounds)
        ELSE NoConfig

\* detect_autonomous_trigger: the config it returns, or NoConfig for None
detect_autonomous_trigger(user_message, character_ids) ==
    LET message_lower == Strip(Lower(user_message))
        hits == {k \in 1..Len(debate_triggers) :
                    re_search(debate_triggers[k], message_lower)[1]}
    IN  IF hits # {}
        THEN LET match == re_search(debate_triggers[MinOf(hits)], message_lower)
             IN  NewConfig("debate", Strip(match[2]),
                           IF Len(character_ids) >= 2 THEN FirstN(character_ids, 2)
                                                      ELSE character_ids,
                           DebateMaxRounds)
        ELSE IF \E keyword \in discussion_keywords : Contains(keyword, message_lower)
        THEN NewConfig("discussion", user_message, character_ids, DiscussionMaxRounds)
        ELSE NoConfig

(***************************************************************************)
(* Pure methods of the orchestrator                                        *)
(***************************************************************************)
\* should_end_conversation with the round test written > instead of >=
should_end_conversation_strict(config) ==
    \/ config.current_round > HalvesPerRound * config.max_rounds
    \/ LET recent_responses == LastN(config.conversation_history, RecentWindow)
           response_texts == [i \in 1..Len(recent_responses) |->
                                 Lower(recent_responses[i].response)]
           unique_responses == Range(response_texts)
       IN  /\ Len(recent_responses) >= RecentWindow
           /\ RepetitionDen * Cardinality(unique_responses)
                 < RepetitionNum * Len(response_texts)

\* should_end_conversation comparing the texts without .lower()
should_end_conversation_cased(config) ==
    \/ config.current_round >= HalvesPerRound * config.max_rounds
    \/ LET recent_responses == LastN(config.conversation_history, RecentWindow)
           response_texts == [i \in 1..Len(recent_responses) |->
                                 recent_responses[i].response]
           unique_responses == Range(response_texts)
       IN  /\ Len(recent_responses) >= RecentWindow
           /\ RepetitionDen * Cardinality(unique_responses)
                 < RepetitionNum * Len(response_texts)

\* should_end_conversation without the round test
should_end_conversation_no_limit(config) ==
    LET recent_responses == LastN(config.conversation_history, RecentWindow)
        response_texts == [i \in 1..Len(recent_responses) |->
                              Lower(recent_responses[i].response)]
        unique_responses == Range(response_texts)
    IN  /\ Len(recent_responses) >= RecentWindow
        /\ RepetitionDen * Cardinality(unique_responses)
              < RepetitionNum * Len(response_texts)

\* should_end_conversation(config)
should_end_conversation(config) ==
    \/ config.current_round >= HalvesPerRound * config.max_rounds
    \/ LET recent_responses == LastN(config.conversation_history, RecentWindow)
           response_texts == [i \in 1..Len(recent_responses) |->
                                 Lower(recent_responses[i].response)]
           unique_responses == Range(response_texts)
       IN  /\ Len(recent_responses) >= RecentWindow
           /\ RepetitionDen * Cardinality(unique_responses)
                 < RepetitionNum * Len(response_texts)

\* participants.index(x): first position of x, 0 when absent (ValueError)
IndexOf(seq, x) ==
    IF \E i \in 1..Len(seq) : seq[i] = x
    THEN MinOf({i \in 1..Len(seq) : seq[i] = x})
    ELSE 0

\* [p for p in participants if p != last_speaker]
available_speakers(config) ==
    SelectSeq(config.participants, LAMBDA p : p # config.last_speaker)

\* the draws random.choice may make for this config (one dummy draw when the
\* code does not reach random.choice)
Choices(config) ==
    IF /\ config.last_speaker # None
       /\ config.type = "discussion"
       /\ Len(available_speakers(config)) > 0
    THEN 1..Len(available_speakers(config))
    ELSE {1}

\* select_next_speaker with the debate branch returning the participant at
\* current_index itself (the "+ 1" lost)
select_next_speaker_same_index(config, choice) ==
    LET participants == config.participants
        last_speaker == config.last_speaker
    IN  IF last_speaker = None
        THEN IF Len(participants) > 0 THEN participants[1] ELSE None
        ELSE IF config.type = "debate"
        THEN LET current_index == IndexOf(participants, last_speaker)
             IN  IF current_index = 0 THEN participants[1]
                 ELSE participants[current_index]
        ELSE IF config.type = "discussion"
        THEN IF Len(available_speakers(config)) > 0
             THEN available_speakers(config)[choice]
             ELSE participants[1]
        ELSE participants[1]

\* select_next_speaker with the discussion branch drawing from participants
\* instead of available_speakers
select_next_speaker_any_participant(config, choice) ==
    LET participants == config.participants
        last_speaker == config.last_speaker
    IN  IF last_speaker = None
        THEN IF Len(participants) > 0 THEN participants[1] ELSE None
        ELSE IF config.type = "debate"
        THEN LET current_index == IndexOf(participants, last_speaker)
             IN  IF current_index = 0 THEN participants[1]
                 ELSE participants[(current_index % Len(participants)) + 1]
        ELSE IF config.type = "discussion"
        THEN IF Len(available_speakers(config)) > 0
             THEN participants[choice]
             ELSE participants[1]
        ELSE participants[1]

\* select_next_speaker(config), with `choice` the draw of random.choice
select_next_speaker(config, choice) ==
    LET participants == config.participants
        last_speaker == config.last_speaker
    IN  IF last_speaker = None
        THEN IF Len(participants) > 0 THEN participants[1] ELSE None
        ELSE IF config.type = "debate"
        THEN LET current_index == IndexOf(participants, last_speaker)
             IN  IF current_index = 0 THEN participants[1]
                 ELSE participants[(current_index % Len(participants)) + 1]
        ELSE IF config.type = "discussion"
        THEN IF Len(available_speakers(config)) > 0
             THEN available_speakers(config)[choice]
             ELSE participants[1]
        ELSE participants[1]

\* the fallback text of generate_character_autonomous_response
FallbackText(character, config) ==
    <<"*">> \o character.name
            \o <<" ","i","s"," ","t","h","i","n","k","i","n","g"," ","a","b","o","u","t"," ">>
            \o config.topic \o <<".",".",".","*">>

\* generate_character_autonomous_response: `outcome` is what the generation
\* service does with the request (raises, answers without choices, or
\* answers with a text)
generate_character_autonomous_response(character, config, outcome) ==
    IF outcome.kind = "content"
    THEN LET response_text == Strip(outcome.content)
         IN  IF /\ Len(response_text) > 0
                /\ response_text[1] = "\""
                /\ response_text[Len(response_text)] = "\""
             THEN SubSeq(response_text, 2, Len(response_text) - 1)
             ELSE response_text
    ELSE FallbackText(character, config)

\* is_autonomous_active(group_id)
is_autonomous_active(group_id) == active_autonomous_chats[group_id] # None

\* get_autonomous_status(group_id): the registered dict
get_autonomous_status(group_id) == configs[active_autonomous_chats[group_id]]

(***************************************************************************)
(* Regular expressions of the selector (smart_character_selector.py).      *)
(* A pattern is a tree: a literal, one character of a class, \s+, \b, ^,   *)
(* $, an optional part, an alternation or a concatenation. ReEnds gives    *)
(* the positions where a match that starts at one of `starts` can end, so  *)
(* re.match and re.search are computed from the pattern itself.            *)
(***************************************************************************)
Lit(text) == [t |-> "lit", text |-> text]
Cls(chars) == [t |-> "cls", chars |-> chars]
Ws == [t |-> "ws"]
Wb == [t |-> "wb"]
Bol == [t |-> "bol"]
Eol == [t |-> "eol"]
Opt(x) == [t |-> "opt", x |-> x]
Alt(xs) == [t |-> "alt", xs |-> xs]
Cat(xs) == [t |-> "cat", xs |-> xs]

\* \w of the re module for the characters of the model
IsWordChar(c) ==
    \/ \E i \in 1..26 : c = LowerLetters[i] \/ c = UpperLetters[i]
    \/ c \in {"0","1","2","3","4","5","6","7","8","9","_"}

\* whether position p of s (1..Len(s)) holds a word character
IsWordAt(s, p) == p >= 1 /\ p <= Len(s) /\ IsWordChar(s[p])

RECURSIVE ReEnds(_, _, _)
RECURSIVE ReCatEnds(_, _, _, _)

ReEnds(re, s, starts) ==
    CASE re.t = "lit" ->
           { p + Len(re.text) : p \in { q \in starts :
                 /\ q + Len(re.text) - 1 <= Len(s)
                 /\ SubSeq(s, q, q + Len(re.text) - 1) = re.text } }
      [] re.t = "cls" ->
           { p + 1 : p \in { q \in starts : q <= Len(s) /\ s[q] \in re.chars } }
      [] re.t = "ws" ->
           { q \in 2..(Len(s) + 1) :
                \E p \in starts : p < q /\ \A k \in p..(q - 1) : IsSpace(s[k]) }
      [] re.t = "wb" ->
           { p \in starts : IsWordAt(s, p - 1) # IsWordAt(s, p) }
      [] re.t = "bol" -> starts \cap {1}
      [] re.t = "eol" -> starts \cap {Len(s) + 1}
      [] re.t = "opt" -> starts \cup ReEnds(re.x, s, starts)
      [] re.t = "alt" -> UNION { ReEnds(re.xs[i], s, starts) : i \in 1..Len(re.xs) }
      [] re.t = "cat" -> ReCatEnds(re.xs, 1, s, starts)

ReCatEnds(xs, i, s, starts) ==
    IF i > Len(xs) \/ starts = {} THEN starts
    ELSE ReCatEnds(xs, i + 1, s, ReEnds(xs[i], s, starts))

\* re.match(pattern, s) and re.search(pattern, s) as booleans
re_match_found(pattern, s) == ReEnds(pattern, s, {1}) # {}
re_search_found(pattern, s) == ReEnds(pattern, s, 1..(Len(s) + 1)) # {}

(***************************************************************************)
(* SmartCharacterSelector                                                  *)
(***************************************************************************)
\* self.group_message_indicators
group_message_indicators ==
    { <<"e","v","e","r","y","o","n","e">>, <<"a","l","l">>, <<"g","u","y","s">>, <<"t","e","a","m">>, <<"g","r","o","u","p">>, <<"b","o","t","h">>,
      <<"a","l","l"," ","o","f"," ","y","o","u">>, <<"w","h","a","t"," ","d","o"," ","y","o","u"," ","a","l","l">>, <<"w","h","a","t"," ","d","o","e","s"," ","e","v","e","r","y","o","n","e">>,
      <<"t","e","l","l"," ","m","e"," ","a","b","o","u","t"," ","y","o","u","r","s","e","l","v","e","s">>, <<"i","n","t","r","o","d","u","c","e"," ","y","o","u","r","s","e","l","v","e","s">>,
      <<"h","o","w"," ","a","r","e"," ","y","o","u"," ","a","l","l">>, <<"w","h","a","t"," ","a","r","e"," ","y","o","u","r"," ","t","h","o","u","g","h","t","s">> }

\* self.greeting_patterns
greeting_patterns ==
    << Cat(<< Bol,
              Alt(<< Lit(<<"h","i">>), Lit(<<"h","e","l","l","o">>), Lit(<<"h","e","y">>),
                     Cat(<< Lit(<<"g","r","e","e","t","i","n","g">>), Opt(Lit(<<"s">>)) >>) >>),
              Opt(Cat(<< Ws, Alt(<< Lit(<<"e","v","e","r","y","o","n","e">>), Lit(<<"a","l","l">>),
                                    Lit(<<"g","u","y","s">>), Lit(<<"t","e","a","m">>) >>) >>)),
              Opt(Cls({"!", "."})), Eol >>),
       Cat(<< Bol, Lit(<<"g","o","o","d">>), Ws,
              Alt(<< Lit(<<"m","o","r","n","i","n","g">>), Lit(<<"a","f","t","e","r","n","o","o","n">>), Lit(<<"e","v","e","n","i","n","g">>),
                     Lit(<<"d","a","y">>) >>),
              Opt(Cat(<< Ws, Alt(<< Lit(<<"e","v","e","r","y","o","n","e">>), Lit(<<"a","l","l">>) >>) >>)),
              Opt(Cls({"!", "."})), Eol >>),
       Cat(<< Bol, Lit(<<"w","h","a","t">>), Opt(Lit(<<"'">>)), Lit(<<"s">>), Ws, Lit(<<"u","p">>),
              Opt(Cat(<< Ws, Alt(<< Lit(<<"e","v","e","r","y","o","n","e">>), Lit(<<"a","l","l">>),
                                    Lit(<<"g","u","y","s">>) >>) >>)),
              Opt(Cls({"!", "."})), Eol >>) >>

\* group_question_patterns of is_group_directed_message
group_question_patterns ==
    << Cat(<< Lit(<<"w","h","a","t"," ","d","o"," ","y","o","u"," ">>), Opt(Lit(<<"a","l","l"," ">>)), Lit(<<"t","h","i","n","k">>) >>),
       Cat(<< Lit(<<"w","h","a","t"," ","a","r","e"," ","y","o","u","r"," ">>),
              Alt(<< Lit(<<"t","h","o","u","g","h","t","s">>), Lit(<<"o","p","i","n","i","o","n","s">>) >>) >>),
       Cat(<< Lit(<<"h","o","w"," ","d","o"," ","y","o","u"," ">>), Opt(Lit(<<"a","l","l"," ">>)), Lit(<<"f","e","e","l">>) >>),
       Lit(<<"t","e","l","l"," ","m","e"," ","a","b","o","u","t"," ","y","o","u","r","s","e","l","v","e","s">>),
       Lit(<<"i","n","t","r","o","d","u","c","e"," ","y","o","u","r","s","e","l","v","e","s">>),
       Cat(<< Lit(<<"w","h","a","t"," ","c","a","n"," ","y","o","u"," ">>), Opt(Lit(<<"a","l","l"," ">>)), Lit(<<"d","o">>) >>) >>

\* the three patterns detect_character_mentions builds around a name
HeyNamePattern(char_name) ==
    Cat(<< Wb, Alt(<< Lit(<<"h","e","y">>), Lit(<<"h","i">>), Lit(<<"h","e","l","l","o">>) >>), Ws,
           Lit(char_name), Wb >>)

NameCommaPattern(char_name) ==
    Cat(<< Wb, Lit(char_name), Opt(Lit(<<",">>)), Ws,
           Alt(<< Lit(<<"w","h","a","t">>), Lit(<<"h","o","w">>), Lit(<<"w","h","y">>), Lit(<<"w","h","e","r","e">>),
                  Lit(<<"w","h","e","n">>) >>) >>)

NameQuestionPattern(char_name) ==
    Cat(<< Lit(char_name), Ws,
           Alt(<< Lit(<<"w","h","a","t">>), Lit(<<"h","o","w">>),
                  Cat(<< Lit(<<"d","o">>), Ws, Lit(<<"y","o","u">>) >>),
                  Cat(<< Lit(<<"a","r","e">>), Ws, Lit(<<"y","o","u">>) >>),
                  Cat(<< Lit(<<"c","a","n">>), Ws, Lit(<<"y","o","u">>) >>) >>) >>)

\* whether detect_character_mentions appends a character of this name
IsMentioned(char_name, message_lower) ==
    \/ Contains(char_name, message_lower)
    \/ Contains(<<"@">> \o char_name, message_lower)
    \/ re_search_found(HeyNamePattern(char_name), message_lower)
    \/ re_search_found(NameCommaPattern(char_name), message_lower)
    \/ re_search_found(NameQuestionPattern(char_name), message_lower)

\* detect_character_mentions(user_message, character_ids, character_database)
detect_character_mentions(user_message, character_ids, character_database) ==
    LET message_lower == Lower(user_message)
        Hit(char_id) ==
            /\ char_id \in DOMAIN character_database
            /\ IsMentioned(Lower(character_database[char_id].name), message_lower)
    IN  SelectSeq(character_ids, Hit)

\* is_group_directed_message(message_lower)
is_group_directed_message(message_lower) ==
    \/ \E indicator \in group_message_indicators : Contains(indicator, message_lower)
    \/ \E k \in 1..Len(group_question_patterns) :
          re_search_found(group_question_patterns[k], message_lower)

\* is_greeting_message(message_lower)
is_greeting_message(message_lower) ==
    \E k \in 1..Len(greeting_patterns) :
        re_match_found(greeting_patterns[k], message_lower)

\* determine_message_type(message_lower)
determine_message_type(message_lower) ==
    IF \E k \in 1..Len(greeting_patterns) :
          re_match_found(greeting_patterns[k], message_lower)
    THEN "greeting"
    ELSE IF \E word \in { <<"?">>, <<"w","h","a","t">>, <<"h","o","w">>, <<"w","h","y">>, <<"w","h","e","r","e">>, <<"w","h","e","n">>, <<"w","h","o">> } :
               Contains(word, message_lower)
    THEN "question"
    ELSE IF \E word \in { <<"t","e","l","l">>, <<"e","x","p","l","a","i","n">>, <<"d","e","s","c","r","i","b","e">>, <<"s","h","o","w">> } :
               Contains(word, message_lower)
    THEN "request"
    ELSE IF \E word \in { <<"d","e","b","a","t","e">>, <<"a","r","g","u","e">>, <<"d","i","s","c","u","s","s">>, <<"f","i","g","h","t">> } :
               Contains(word, message_lower)
    THEN "debate_trigger"
    ELSE "statement"

\* calculate_confidence, in tenths: 0.5, + 0.4, + 0.3, + 0.2, at most 1.0
calculate_confidence(mentioned_characters, is_group_message, is_greeting) ==
    MinOf({ 10,
            5 + (IF Len(mentioned_characters) > 0 THEN 4 ELSE 0)
              + (IF is_group_message THEN 3 ELSE 0)
              + (IF is_greeting THEN 2 ELSE 0) })

(***************************************************************************)
(* The external intent opinion. The service raises, answers without        *)
(* choices, or answers with a content text; json.loads either raises       *)
(* JSONDecodeError on the text or returns the value the text denotes.      *)
(* A value is a dict (with the keys `keys`) or a list (with `items`).      *)
(***************************************************************************)
PyDict(keys, target_type, target_characters, response_count) ==
    [kind |-> "dict", keys |-> keys, target_type |-> target_type,
     target_characters |-> target_characters, response_count |-> response_count,
     items |-> <<>>]

PyList(items) ==
    [kind |-> "list", keys |-> {}, target_type |-> None,
     target_characters |-> <<>>, response_count |-> 0, items |-> items]

\* bool(value)
Truthy(value) ==
    IF value.kind = "dict" THEN value.keys # {} ELSE Len(value.items) > 0

\* seq[:n]
SliceTo(seq, n) ==
    IF n >= 0 THEN SubSeq(seq, 1, MinOf({n, Len(seq)}))
    ELSE SubSeq(seq, 1, MaxOf({Len(seq) + n, 0}))

\* json.loads(content): <<TRUE, value>>, or <<FALSE, ...>> for JSONDecodeError
json_loads(content) ==
    IF content.well_formed THEN <<TRUE, content.value>> ELSE <<FALSE, PyList(<<>>)>>

AllKeys == {"target_type", "target_characters", "reasoning", "response_count"}

\* the dict at the end of get_ai_intent_analysis
IntentFallback(char_names) ==
    PyDict(AllKeys, "general", SliceTo(char_names, 2), 1)

\* get_ai_intent_analysis(user_message, character_ids, character_database);
\* `reply` is what the service does with the request
get_ai_intent_analysis(character_ids, character_database, reply) ==
    LET known == SelectSeq(character_ids, LAMBDA id : id \in DOMAIN character_database)
        char_names == [i \in 1..Len(known) |-> character_database[known[i]].name]
    IN  IF reply.kind = "content" /\ json_loads(reply.content)[1]
        THEN json_loads(reply.content)[2]
        ELSE IntentFallback(char_names)

\* analyze_message_intent(user_message, character_ids, character_database)
analyze_message_intent(user_message, character_ids, character_database, reply) ==
    LET message_lower == Strip(Lower(user_message))
        mentioned_characters ==
            detect_character_mentions(user_message, character_ids, character_database)
        is_group_message == is_group_directed_message(message_lower)
        is_greeting == is_greeting_message(message_lower)
    IN  [mentioned_characters |-> mentioned_characters,
         is_group_message |-> is_group_message,
         is_greeting |-> is_greeting,
         ai_analysis |-> get_ai_intent_analysis(character_ids, character_database, reply),
         message_type |-> determine_message_type(message_lower),
         confidence |-> calculate_confidence(mentioned_characters, is_group_message,
                                             is_greeting)]

\* ai_targets of select_responding_characters: for each target name in
\* turn, the first candidate of the store with that name in lower case
AiTargets(target_characters, character_ids, character_database) ==
    LET Matches(target_name) ==
            { k \in 1..Len(character_ids) :
                 /\ character_ids[k] \in DOMAIN character_database
                 /\ Lower(character_database[character_ids[k]].name) = Lower(target_name) }
        upto[i \in 0..Len(target_characters)] ==
            IF i = 0 THEN <<>>
            ELSE IF Matches(target_characters[i]) = {} THEN upto[i - 1]
            ELSE Append(upto[i - 1],
                        character_ids[MinOf(Matches(target_characters[i]))])
    IN  upto[Len(target_characters)]

\* what a call returns: a list, or an exception that reaches the caller
Returned(ids) == [raised |-> FALSE, ids |-> ids]
Raised == [raised |-> TRUE, ids |-> <<>>]

\* priorities 5 and the final return of select_responding_characters
SelectByType(message_type, character_ids) ==
    IF message_type = "debate_trigger" THEN SliceTo(character_ids, 2)
    ELSE IF message_type = "question" THEN SliceTo(character_ids, 2)
    ELSE IF message_type = "request" THEN SliceTo(character_ids, 1)
    ELSE SliceTo(character_ids, 1)

\* select_responding_characters with the greeting tested before the mentions
select_responding_characters_greeting_first(intent_analysis, character_ids, character_database) ==
    LET ai_analysis == intent_analysis.ai_analysis
        ai_targets == AiTargets(ai_analysis.target_characters, character_ids,
                                character_database)
        by_type == Returned(SelectByType(intent_analysis.message_type, character_ids))
    IN  IF intent_analysis.is_greeting THEN Returned(character_ids)
        ELSE IF Len(intent_analysis.mentioned_characters) > 0
        THEN Returned(intent_analysis.mentioned_characters)
        ELSE IF intent_analysis.is_group_message THEN Returned(character_ids)
        ELSE IF ~Truthy(ai_analysis) THEN by_type
        ELSE IF ai_analysis.kind # "dict" THEN Raised
        ELSE IF /\ "target_characters" \in ai_analysis.keys
                /\ Len(ai_analysis.target_characters) > 0
                /\ Len(ai_targets) > 0
        THEN Returned(SliceTo(ai_targets,
                              IF "response_count" \in ai_analysis.keys
                              THEN ai_analysis.response_count ELSE 2))
        ELSE by_type

\* select_responding_characters without priority 3 (group-directed messages)
select_responding_characters_no_group_rule(intent_analysis, character_ids, character_database) ==
    LET ai_analysis == intent_analysis.ai_analysis
        ai_targets == AiTargets(ai_analysis.target_characters, character_ids,
                                character_database)
        by_type == Returned(SelectByType(intent_analysis.message_type, character_ids))
    IN  IF Len(intent_analysis.mentioned_characters) > 0
        THEN Returned(intent_analysis.mentioned_characters)
        ELSE IF intent_analysis.is_greeting THEN Returned(character_ids)
        ELSE IF ~Truthy(ai_analysis) THEN by_type
        ELSE IF ai_analysis.kind # "dict" THEN Raised
        ELSE IF /\ "target_characters" \in ai_analysis.keys
                /\ Len(ai_analysis.target_characters) > 0
                /\ Len(ai_targets) > 0
        THEN Returned(SliceTo(ai_targets,
                              IF "response_count" \in ai_analysis.keys
                              THEN ai_analysis.response_count ELSE 2))
        ELSE by_type

\* select_responding_characters(intent_analysis, character_ids, character_database)
select_responding_characters(intent_analysis, character_ids, character_database) ==
    LET ai_analysis == intent_analysis.ai_analysis
        ai_targets == AiTargets(ai_analysis.target_characters, character_ids,
                                character_database)
        by_type == Returned(SelectByType(intent_analysis.message_type, character_ids))
    IN  IF Len(intent_analysis.mentioned_characters) > 0
        THEN Returned(intent_analysis.mentioned_characters)
        ELSE IF intent_analysis.is_greeting THEN Returned(character_ids)
        ELSE IF intent_analysis.is_group_message THEN Returned(character_ids)
        ELSE IF ~Truthy(ai_analysis) THEN by_type
        ELSE IF ai_analysis.kind # "dict" THEN Raised
        ELSE IF /\ "target_characters" \in ai_analysis.keys
                /\ Len(ai_analysis.target_characters) > 0
                /\ Len(ai_targets) > 0
        THEN Returned(SliceTo(ai_targets,
                              IF "response_count" \in ai_analysis.keys
                              THEN ai_analysis.response_count ELSE 2))
        ELSE by_type

\* no reply, no analysis: the values of a call record that has none
NoReply == [kind |-> None, content |-> [well_formed |-> FALSE, value |-> PyList(<<>>)]]

NoIntent ==
    [mentioned_characters |-> <<>>, is_group_message |-> FALSE, is_greeting |-> FALSE,
     ai_analysis |-> PyList(<<>>), message_type |-> None, confidence |-> 0]

(***************************************************************************)
(* Inputs of the behaviours                                                *)
(***************************************************************************)
\* character_database arguments: the full store, and one without "bo"
FullDatabase ==
    [id \in {"al", "bo", "cy"} |->
        [name |-> IF id = "al" THEN <<"A","l">>
                  ELSE IF id = "bo" THEN <<"B","o">> ELSE <<"C","y">>]]

PartDatabase == [id \in {"al", "cy"} |-> FullDatabase[id]]

Databases == {FullDatabase, PartDatabase}

\* character_ids arguments of detect_autonomous_trigger
CandidateLists == { <<"al">>, <<"al", "bo">>, <<"al", "bo", "cy">> }

\* user messages handed to detect_autonomous_trigger:
\* "Debate about tea", "Lets chat", "hi"
TriggerMessages ==
    { <<"D","e","b","a","t","e"," ","a","b","o","u","t"," ","t","e","a">>,
      <<"L","e","t","s"," ","c","h","a","t">>,
      <<"h","i">> }

\* what detect_autonomous_trigger returns for these inputs
DetectTable ==
    [m \in TriggerMessages |->
        [ids \in CandidateLists |-> detect_autonomous_trigger(m, ids)]]

\* config dicts the caller builds itself, in the shape of those of
\* detect_autonomous_trigger, with a max_rounds of its own
CallerMaxRounds == {2}

CallerConfigs ==
    { NewConfig(type, <<"t","e","a">>, ids, max_rounds) :
         type \in {"debate", "discussion"}, ids \in CandidateLists,
         max_rounds \in CallerMaxRounds }

\* user messages handed to handle_user_interruption:
\* "please stop", "WEEKEND", "go on"
InterruptMessages ==
    { <<"p","l","e","a","s","e"," ","s","t","o","p">>,
      <<"W","E","E","K","E","N","D">>,
      <<"g","o"," ","o","n">> }

\* what the generation service does with one request: it raises, it answers
\* without choices, or it answers with one of the texts
\* `"Yes"` (wrapped in quotes) and ` ` (blank)
ServiceOutcomes ==
    { [kind |-> "raise", content |-> <<>>],
      [kind |-> "no_choices", content |-> <<>>],
      [kind |-> "content", content |-> <<"\"","Y","e","s","\"">>],
      [kind |-> "content", content |-> <<" ">>] }

(***************************************************************************)
(* State                                                                   *)
(***************************************************************************)
\* `last` describes the call made by the latest step:
\*   op, group_id, user_message   the method and its arguments
\*   store_ids                    the ids of the character_database argument
\*   was_active                   whether group_id was registered at the call
\*   ret_msgs, ret_bool           what the call returned
\*   speaker                      the speaker select_next_speaker chose
\*   service_called, outcome      whether the generation service was invoked
\*                                and what it did: "failure" (it raised or
\*                                answered without choices) or "content"
\*   config_ref                   the dict handed to start_autonomous_conversation
\*   character_ids                the character_ids argument
\*   reply                        what the intent service does in the call
\*   intent                       what analyze_message_intent returned
\*   selected                     what select_responding_characters returned
\*   group_name                   the group_name argument
\*   recent_messages              the recent_messages argument
\*   plan                         what the generation service does with the
\*                                requests of generate_group_response
\*   character, score             the character argument and the result of
\*                                calculate_enhanced_relevance, in tenths
OutcomeClass(outcome) == IF outcome.kind = "content" THEN "content" ELSE "failure"

NoCall ==
    [op |-> "init", group_id |-> None, user_message |-> <<>>, store_ids |-> {},
     was_active |-> FALSE, ret_msgs |-> <<>>, ret_bool |-> FALSE, speaker |-> None,
     service_called |-> FALSE, outcome |-> None,
     config_ref |-> None, character_ids |-> <<>>,
     reply |-> NoReply, intent |-> NoIntent, selected |-> Returned(<<>>),
     group_name |-> <<>>, recent_messages |-> <<>>,
     character |-> [name |-> <<>>, powers_abilities |-> <<>>, personality |-> <<>>],
     score |-> 0, plan |-> <<>>]

\* a dict without keys
EmptyDict == [k \in {} |-> None]

\* __init__: an empty registry
Init ==
    /\ configs = [r \in ConfigRefs |-> NoConfig]
    /\ active_autonomous_chats = [g \in Groups |-> None]
    /\ last = NoCall
    /\ group_chats = EmptyDict

Registered(ref) == \E g \in Groups : active_autonomous_chats[g] = ref

(***************************************************************************)
(* Operations                                                              *)
(***************************************************************************)
\* detect_autonomous_trigger(user_message, character_ids): the caller keeps
\* the returned dict at `ref`, a slot whose former dict it has let go of
DetectTrigger(user_message, character_ids, ref) ==
    LET config == DetectTable[user_message][character_ids]
    IN  /\ config = NoConfig \/ ~Registered(ref)
        /\ configs' = IF config = NoConfig THEN configs
                      ELSE [configs EXCEPT ![ref] = config]
        /\ last' = [NoCall EXCEPT !.op = "detect", !.user_message = user_message,
                                  !.ret_bool = (config # NoConfig)]
        /\ UNCHANGED active_autonomous_chats

\* the caller builds a config dict of its own and keeps it at `ref`
CallerConfig(config, ref) ==
    /\ ~Registered(ref)
    /\ configs' = [configs EXCEPT ![ref] = config]
    /\ last' = [NoCall EXCEPT !.op = "config"]
    /\ UNCHANGED active_autonomous_chats

\* start_autonomous_conversation that keeps the registration of a group
\* which is already active (dict.setdefault instead of an assignment)
StartConversation_keeps_active(ref, group_id) ==
    /\ configs[ref] # NoConfig
    /\ configs' = [configs EXCEPT ![ref].last_speaker = None,
                                  ![ref].conversation_history = <<>>]
    /\ active_autonomous_chats' =
          IF active_autonomous_chats[group_id] # None THEN active_autonomous_chats
          ELSE [active_autonomous_chats EXCEPT ![group_id] = ref]
    /\ last' = [NoCall EXCEPT !.op = "start", !.group_id = group_id,
                              !.config_ref = ref,
                              !.was_active = is_autonomous_active(group_id)]

\* start_autonomous_conversation(conversation_config, group_id), with
\* conversation_config the dict at `ref`: the dict itself is registered
StartConversation(ref, group_id) ==
    /\ configs[ref] # NoConfig
    /\ configs' = [configs EXCEPT ![ref].last_speaker = None,
                                  ![ref].conversation_history = <<>>]
    /\ active_autonomous_chats' = [active_autonomous_chats EXCEPT ![group_id] = ref]
    /\ last' = [NoCall EXCEPT !.op = "start", !.group_id = group_id,
                              !.config_ref = ref,
                              !.was_active = is_autonomous_active(group_id)]

\* end_autonomous_conversation without the del
end_autonomous_conversation_keeps(group_id) == active_autonomous_chats

\* end_autonomous_conversation emptying the whole registry
end_autonomous_conversation_clears_all(group_id) == [g \in Groups |-> None]

\* end_autonomous_conversation(group_id) as an update of the registry
end_autonomous_conversation(group_id) ==
    IF active_autonomous_chats[group_id] # None
    THEN [active_autonomous_chats EXCEPT ![group_id] = None]
    ELSE active_autonomous_chats

\* the message generate_autonomous_response returns when the conversation
\* ends: "<Type> concluded after <current_round> rounds!"
SystemMessage(config) ==
    [character_id |-> "system",
     character_name |-> <<"S","y","s","t","e","m">>,
     response |-> [concluded |-> config.type, rounds |-> config.current_round]]

\* the message generate_autonomous_response returns for a character turn
TurnMessage(next_speaker_id, character, response_text) ==
    [character_id |-> next_speaker_id,
     character_name |-> character.name,
     response |-> response_text,
     autonomous |-> TRUE]

\* the state update of a turn without the assignment of last_speaker
RecordTurn_keeps_last_speaker(config, next_speaker_id, response_text) ==
    [config EXCEPT !.current_round = @ + TurnStep,
                   !.conversation_history =
                       Append(@, [speaker |-> next_speaker_id,
                                  response |-> response_text])]

\* the state update of a turn
RecordTurn(config, next_speaker_id, response_text) ==
    [config EXCEPT !.last_speaker = next_speaker_id,
                   !.current_round = @ + TurnStep,
                   !.conversation_history =
                       Append(@, [speaker |-> next_speaker_id,
                                  response |-> response_text])]

\* the call record of generate_autonomous_response
GenerateCall(group_id, character_database) ==
    [NoCall EXCEPT !.op = "generate", !.group_id = group_id,
                   !.store_ids = DOMAIN character_database,
                   !.was_active = is_autonomous_active(group_id)]

\* the missing-speaker branch ending the conversation instead of returning
SpeakerNotFoundEnds(group_id, character_database, next_speaker_id) ==
    /\ last' = [GenerateCall(group_id, character_database) EXCEPT
                   !.speaker = next_speaker_id]
    /\ active_autonomous_chats' = [active_autonomous_chats EXCEPT ![group_id] = None]
    /\ UNCHANGED configs

\* generate_autonomous_response when the chosen speaker is None or is not
\* in character_database: an empty list, nothing else
SpeakerNotFound(group_id, character_database, next_speaker_id) ==
    /\ last' = [GenerateCall(group_id, character_database) EXCEPT
                   !.speaker = next_speaker_id]
    /\ UNCHANGED <<configs, active_autonomous_chats>>

\* generate_autonomous_response(group_id, character_database); `outcome` is
\* what the generation service does if it is called and `choice` the draw
\* of random.choice if one is made
GenerateResponse(group_id, character_database, outcome, choice) ==
    LET ref == active_autonomous_chats[group_id]
        config == configs[ref]
        call == GenerateCall(group_id, character_database)
        next_speaker_id == select_next_speaker(config, choice)
        character == character_database[next_speaker_id]
        response_text == generate_character_autonomous_response(character, config, outcome)
    IN  IF ref = None
        THEN /\ last' = call
             /\ UNCHANGED <<configs, active_autonomous_chats>>
        ELSE IF should_end_conversation(config)
        THEN /\ active_autonomous_chats' = end_autonomous_conversation(group_id)
             /\ last' = [call EXCEPT !.ret_msgs = <<SystemMessage(config)>>]
             /\ UNCHANGED configs
        ELSE IF next_speaker_id = None \/ next_speaker_id \notin DOMAIN character_database
        THEN SpeakerNotFound(group_id, character_database, next_speaker_id)
        ELSE IF Len(response_text) > 0
        THEN /\ config.current_round < MaxTurns
             /\ configs' = [configs EXCEPT
                              ![ref] = RecordTurn(config, next_speaker_id, response_text)]
             /\ last' = [call EXCEPT
                           !.ret_msgs = <<TurnMessage(next_speaker_id, character,
                                                      response_text)>>,
                           !.speaker = next_speaker_id,
                           !.service_called = TRUE,
                           !.outcome = OutcomeClass(outcome)]
             /\ UNCHANGED active_autonomous_chats
        ELSE /\ last' = [call EXCEPT !.speaker = next_speaker_id,
                                     !.service_called = TRUE,
                                     !.outcome = OutcomeClass(outcome)]
             /\ UNCHANGED <<configs, active_autonomous_chats>>

\* end_autonomous_conversation(group_id), called directly
EndConversation(group_id) ==
    /\ active_autonomous_chats' = end_autonomous_conversation(group_id)
    /\ last' = [NoCall EXCEPT !.op = "end", !.group_id = group_id,
                              !.was_active = is_autonomous_active(group_id)]
    /\ UNCHANGED configs

\* the keyword test without .lower()
has_interruption_keyword_case_sensitive(user_message) ==
    \E keyword \in interruption_keywords : Contains(keyword, user_message)

\* the keyword test as any(interruption_keywords): true of every message
has_interruption_keyword_any(user_message) ==
    \E keyword \in interruption_keywords : Len(keyword) > 0

\* any(keyword in user_message.lower() for keyword in interruption_keywords)
has_interruption_keyword(user_message) ==
    \E keyword \in interruption_keywords : Contains(keyword, Lower(user_message))

\* handle_user_interruption(user_message, group_id)
HandleInterruption(user_message, group_id) ==
    LET call == [NoCall EXCEPT !.op = "interrupt", !.group_id = group_id,
                               !.user_message = user_message,
                               !.was_active = is_autonomous_active(group_id)]
    IN  IF has_interruption_keyword(user_message)
        THEN /\ active_autonomous_chats' = end_autonomous_conversation(group_id)
             /\ last' = [call EXCEPT !.ret_bool = TRUE]
             /\ UNCHANGED configs
        ELSE /\ last' = call
             /\ UNCHANGED <<configs, active_autonomous_chats>>

\* the draws random.choice may make in a call of generate_autonomous_response
ChoicesOf(group_id) ==
    IF active_autonomous_chats[group_id] = None THEN {1}
    ELSE Choices(configs[active_autonomous_chats[group_id]])

\* the arguments the behaviours of Spec call the interface with
MainInputs ==
    [messages |-> TriggerMessages, lists |-> CandidateLists,
     caller_configs |-> CallerConfigs, databases |-> Databases,
     outcomes |-> ServiceOutcomes, interrupts |-> InterruptMessages]

\* one call of the orchestrator's interface for a group of `groups`, with
\* config dicts kept at `refs` and arguments drawn from `inputs`
Step(groups, refs, inputs) ==
    \/ \E m \in inputs.messages, ids \in inputs.lists, ref \in refs :
          DetectTrigger(m, ids, ref) /\ UNCHANGED group_chats
    \/ \E config \in inputs.caller_configs, ref \in refs :
          CallerConfig(config, ref) /\ UNCHANGED group_chats
    \/ \E ref \in refs, g \in groups :
          StartConversation(ref, g) /\ UNCHANGED group_chats
    \/ \E g \in groups, db \in inputs.databases, outcome \in inputs.outcomes :
          \E choice \in ChoicesOf(g) :
             GenerateResponse(g, db, outcome, choice) /\ UNCHANGED group_chats
    \/ \E g \in groups : EndConversation(g) /\ UNCHANGED group_chats
    \/ \E m \in inputs.interrupts, g \in groups :
          HandleInterruption(m, g) /\ UNCHANGED group_chats

Next == Step(MainGroups, MainRefs, MainInputs)

Spec == Init /\ [][Next]_vars

\* Two groups and two config dicts, each call with one of a few arguments:
\* "Lets chat" for [al, bo], a caller-built debate of two rounds, the full
\* store, a service that answers "Yes", "please stop" and "go on".
GroupsInputs ==
    [messages |-> { <<"L","e","t","s"," ","c","h","a","t">> },
     lists |-> { <<"al", "bo">> },
     caller_configs |-> { NewConfig("debate", <<"t","e","a">>, <<"al", "bo">>, 2) },
     databases |-> { FullDatabase },
     outcomes |-> { [kind |-> "content", content |-> <<"\"","Y","e","s","\"">>] },
     interrupts |-> { <<"p","l","e","a","s","e"," ","s","t","o","p">>,
                      <<"g","o"," ","o","n">> }]

NextGroups == Step(Groups, ConfigRefs, GroupsInputs)

SpecGroups == Init /\ [][NextGroups]_vars

(***************************************************************************)
(* Properties of the conversation lifecycle (checked under Spec)           *)
(***************************************************************************)
\* the config dict registered for an active group
ConfigOf(group_id) == configs[active_autonomous_chats[group_id]]

\* "<name> is thinking about <topic>..."
Placeholder(name, topic) ==
    name \o <<" ","i","s"," ","t","h","i","n","k","i","n","g"," ","a","b","o","u","t"," ">>
         \o topic \o <<".",".",".">>

\* C1: when the generation service fails (it raises or returns no choices)
\* during generate_autonomous_response for an active group, the call yields
\* the placeholder text "<name> is thinking about <topic>..." and leaves
\* current_round, last_speaker and conversation_history of that group as
\* they were before the call.
C1_FailedGenerationLeavesState ==
    [][ (last'.op = "generate" /\ last'.service_called /\ last'.outcome = "failure")
        => LET g == last'.group_id
               before == ConfigOf(g)
               after == configs'[active_autonomous_chats[g]]
           IN  /\ Len(last'.ret_msgs) = 1
               /\ Contains(Placeholder(FullDatabase[last'.speaker].name, before.topic),
                           last'.ret_msgs[1].response)
               /\ after.current_round = before.current_round
               /\ after.last_speaker = before.last_speaker
               /\ after.conversation_history = before.conversation_history ]_vars

\* C2: a call of generate_autonomous_response for an active group whose
\* state satisfies should_end_conversation removes the group from the
\* registry, returns exactly one message, of character_id "system", that
\* announces the conclusion with the round count, appends no turn and does
\* not invoke the generation service.
C2_EndingCall ==
    [][ ( /\ last'.op = "generate"
          /\ is_autonomous_active(last'.group_id)
          /\ should_end_conversation(ConfigOf(last'.group_id)) )
        => LET g == last'.group_id
               config == ConfigOf(g)
           IN  /\ active_autonomous_chats'[g] = None
               /\ Len(last'.ret_msgs) = 1
               /\ last'.ret_msgs[1].character_id = "system"
               /\ last'.ret_msgs[1].response =
                     [concluded |-> config.type, rounds |-> config.current_round]
               /\ configs' = configs
               /\ ~last'.service_called ]_vars

\* a conversation of g1 has just been concluded by generate_autonomous_response
C2_Witness ==
    /\ last.op = "generate" /\ last.group_id = "g1" /\ last.was_active
    /\ Len(last.ret_msgs) = 1
    /\ last.ret_msgs[1].character_id = "system"
    /\ ~is_autonomous_active("g1")

\* C5: after start_autonomous_conversation followed by exactly N successful
\* turns, current_round equals N x 0.5 (N half rounds): the round of an
\* active conversation is half the number of turns in its history.
C5_RoundIsHalfTheTurns ==
    \A g \in Groups :
        is_autonomous_active(g) =>
            ConfigOf(g).current_round = TurnStep * Len(ConfigOf(g).conversation_history)

\* C11: after start_autonomous_conversation(spec, group_id), for any spec
\* passed in, the registered state of group_id has round 0, no last speaker
\* and an empty history, and is_autonomous_active(group_id) is true.
C11_StartRegistersRoundZero ==
    last.op = "start" =>
        /\ is_autonomous_active(last.group_id)
        /\ ConfigOf(last.group_id).current_round = 0
        /\ ConfigOf(last.group_id).last_speaker = None
        /\ ConfigOf(last.group_id).conversation_history = <<>>

\* the groups with a registered autonomous state
ActiveGroups(registry) == { g \in Groups : registry[g] # None }

\* C12: the registry holds at most one autonomous state per group
\* identifier (each group id is bound to one config dict or to none), and
\* starting a conversation for a group that is already active replaces its
\* state instead of adding a second one: after the start the group is bound
\* to the dict just passed, with an empty history, the bindings of the
\* other groups are the same, and the number of registered states grows by
\* one only if the group was not active.
C12_StartReplaces ==
    [][ /\ active_autonomous_chats' \in [Groups -> ConfigRefs \cup {None}]
        /\ last'.op = "start" =>
              LET g == last'.group_id
              IN  /\ active_autonomous_chats'[g] = last'.config_ref
                  /\ configs'[last'.config_ref].conversation_history = <<>>
                  /\ configs'[last'.config_ref].last_speaker = None
                  /\ \A h \in Groups \ {g} :
                        active_autonomous_chats'[h] = active_autonomous_chats[h]
                  /\ Cardinality(ActiveGroups(active_autonomous_chats')) =
                        Cardinality(ActiveGroups(active_autonomous_chats))
                           + (IF last'.was_active THEN 0 ELSE 1) ]_vars

\* g1 was active with a dict that has had a turn, and has just been started
\* again with another dict
C12_Witness ==
    /\ last.op = "start" /\ last.group_id = "g1" /\ last.was_active
    /\ last.config_ref = "c2"
    /\ active_autonomous_chats["g1"] = "c2"
    /\ configs["c1"] # NoConfig
    /\ configs["c1"].conversation_history # <<>>

\* C13: start, tick, interrupt and end for group G leave the state of every
\* other group in the registry unchanged (its binding and the contents of
\* the state it is bound to): no mutable state is shared between the states
\* of two different groups.
C13_OtherGroupsUnchanged ==
    [][ last'.op \in {"start", "generate", "end", "interrupt"} =>
           \A h \in Groups \ {last'.group_id} :
              /\ active_autonomous_chats'[h] = active_autonomous_chats[h]
              /\ active_autonomous_chats[h] # None =>
                    configs'[active_autonomous_chats[h]] =
                       configs[active_autonomous_chats[h]] ]_vars

\* C6: in a debate with participants [A, B], select_next_speaker returns A
\* when there is no last speaker and otherwise the participant after the
\* last speaker, cyclically; the speakers of the turns alternate A, B, A, B
\* and nobody speaks twice in a row.
C6_DebateAlternates ==
    \A ref \in ConfigRefs :
        LET config == configs[ref]
            history == config.conversation_history
            Expected(i) == config.participants[((i - 1) % 2) + 1]
        IN  (config.type = "debate" /\ Len(config.participants) = 2) =>
               /\ \A i \in 1..Len(history) : history[i].speaker = Expected(i)
               /\ \A i \in 2..Len(history) : history[i].speaker # history[i-1].speaker
               /\ select_next_speaker(config, 1) = Expected(Len(history) + 1)

\* a debate between two participants has had four turns
C6_Witness ==
    \E ref \in ConfigRefs :
        /\ configs[ref].type = "debate"
        /\ configs[ref].participants = <<"al", "bo">>
        /\ Len(configs[ref].conversation_history) >= 4
        /\ configs[ref].last_speaker = "bo"

\* C7: in a discussion select_next_speaker never returns the immediately
\* preceding speaker unless that speaker is the only participant: whatever
\* the random draw, the result is a participant other than last_speaker
\* when one exists, and no two consecutive turns have the same speaker.
C7_DiscussionNeverRepeatsSpeaker ==
    \A ref \in ConfigRefs :
        LET config == configs[ref]
            history == config.conversation_history
            others == Range(config.participants) \ {config.last_speaker}
        IN  (config.type = "discussion" /\ others # {}) =>
               /\ \A i \in 2..Len(history) : history[i].speaker # history[i-1].speaker
               /\ config.last_speaker # None =>
                     \A choice \in Choices(config) :
                         select_next_speaker(config, choice) \in others

\* a discussion among three participants in which the third turn went back
\* to the first speaker (the order is not a fixed rotation)
C7_Witness ==
    \E ref \in ConfigRefs :
        LET history == configs[ref].conversation_history
        IN  /\ configs[ref].type = "discussion"
            /\ Len(configs[ref].participants) = 3
            /\ Len(history) >= 4
            /\ history[3].speaker = history[1].speaker
            /\ history[4].speaker = "cy"

\* whether a message contains one of the stop-words, whatever its case
ContainsStopWord(user_message) ==
    \E word \in { <<"s","t","o","p">>, <<"e","n","o","u","g","h">>,
                  <<"p","a","u","s","e">>, <<"e","n","d">>, <<"q","u","i","t">>,
                  <<"f","i","n","i","s","h">> } :
        Contains(word, Lower(user_message))

\* C8: handle_user_interruption with a message containing a stop-word
\* removes the group from the registry and returns true; afterwards
\* is_autonomous_active is false and generate_autonomous_response produces
\* no turn for the group until start_autonomous_conversation is called
\* again.
C8_InterruptionStops ==
    [][ /\ (last'.op = "interrupt" /\ ContainsStopWord(last'.user_message))
            => /\ last'.ret_bool
               /\ active_autonomous_chats'[last'.group_id] = None
        /\ (last'.op = "generate" /\ ~is_autonomous_active(last'.group_id))
            => /\ last'.ret_msgs = <<>>
               /\ ~last'.service_called
               /\ UNCHANGED <<configs, active_autonomous_chats>>
        /\ \A g \in Groups :
             (~is_autonomous_active(g) /\ active_autonomous_chats'[g] # None)
                => (last'.op = "start" /\ last'.group_id = g) ]_vars

\* an active conversation of g1 has just been interrupted
C8_Witness ==
    /\ last.op = "interrupt" /\ last.group_id = "g1" /\ last.was_active
    /\ ContainsStopWord(last.user_message)
    /\ last.ret_bool
    /\ ~is_autonomous_active("g1")

\* C9: handle_user_interruption with a message that contains none of the
\* stop-words returns false and leaves the whole registry unchanged: the
\* group stays active with the same round, last_speaker and history.
C9_OtherMessagesChangeNothing ==
    [][ (last'.op = "interrupt" /\ ~ContainsStopWord(last'.user_message))
        => /\ ~last'.ret_bool
           /\ UNCHANGED <<configs, active_autonomous_chats>> ]_vars

\* an active conversation with turns has just survived a user message
C9_Witness ==
    /\ last.op = "interrupt" /\ last.group_id = "g1" /\ last.was_active
    /\ ~ContainsStopWord(last.user_message)
    /\ ~last.ret_bool
    /\ is_autonomous_active("g1")
    /\ Len(ConfigOf("g1").conversation_history) >= 2

\* C10: when the speaker chosen by select_next_speaker is absent from the
\* character store, generate_autonomous_response returns an empty result
\* and changes nothing: the group stays registered with the same round,
\* last_speaker and history, and the generation service is not called.
C10_MissingSpeakerIsNoOp ==
    [][ ( /\ last'.op = "generate"
          /\ is_autonomous_active(last'.group_id)
          /\ ~should_end_conversation(ConfigOf(last'.group_id)) )
        => LET config == ConfigOf(last'.group_id)
           IN  /\ last'.speaker \in
                     {select_next_speaker(config, choice) : choice \in Choices(config)}
               /\ last'.speaker \notin last'.store_ids
                     => /\ last'.ret_msgs = <<>>
                        /\ ~last'.service_called
                        /\ UNCHANGED <<configs, active_autonomous_chats>> ]_vars

\* a running conversation whose next speaker, bo, was missing from the store
C10_Witness ==
    /\ last.op = "generate" /\ last.group_id = "g1" /\ last.was_active
    /\ last.speaker = "bo" /\ "bo" \notin last.store_ids
    /\ last.ret_msgs = <<>>
    /\ is_autonomous_active("g1")
    /\ ConfigOf("g1").last_speaker = "al"

(***************************************************************************)
(* should_end_conversation on its own (SpecShouldEnd): the initial states  *)
(* hold one config dict drawn from EndConfigs and the only step applies    *)
(* should_end_conversation to it.                                          *)
(***************************************************************************)
\* reply texts: "Yes", "yes", "No", "ok", "hm"
EndTexts ==
    { <<"Y","e","s">>, <<"y","e","s">>, <<"N","o">>, <<"o","k">>, <<"h","m">> }

EndEntries == { [speaker |-> "al", response |-> t] : t \in EndTexts }

EndHistories == UNION { [1..n -> EndEntries] : n \in 0..MaxEndHistory }

\* a debate of max_rounds 2 (4 half rounds), one turn short of the limit,
\* at the limit and one turn past it
EndRounds == {3, 4, 5}

EndConfigs ==
    { [NewConfig("debate", <<"t","e","a">>, <<"al", "bo">>, 2) EXCEPT
          !.current_round = r, !.last_speaker = "al", !.conversation_history = h] :
         r \in EndRounds, h \in EndHistories }

InitShouldEnd ==
    /\ \E config \in EndConfigs :
          configs = [r \in ConfigRefs |-> IF r = "c1" THEN config ELSE NoConfig]
    /\ active_autonomous_chats = [g \in Groups |-> None]
    /\ last = NoCall
    /\ group_chats = EmptyDict

ApplyShouldEnd ==
    /\ last.op = "init"
    /\ last' = [NoCall EXCEPT !.op = "should_end",
                              !.ret_bool = should_end_conversation(configs["c1"])]
    /\ UNCHANGED <<configs, active_autonomous_chats, group_chats>>

NextShouldEnd == ApplyShouldEnd

SpecShouldEnd == InitShouldEnd /\ [][NextShouldEnd]_vars

\* the lower-cased texts of the last four entries of a history
RecentLowered(history) ==
    { Lower(LastN(history, 4)[i].response) : i \in 1..Len(LastN(history, 4)) }

\* C3: should_end_conversation returns true for every state whose
\* current_round is greater than or equal to its max_rounds, whatever the
\* content or length of its conversation_history.
C3_RoundLimitEnds ==
    ( /\ last.op = "should_end"
      /\ configs["c1"].current_round >= 2 * configs["c1"].max_rounds )
    => last.ret_bool

\* should_end_conversation was applied at exactly max_rounds to a history of
\* five turns whose last four texts all differ
C3_Witness ==
    /\ last.op = "should_end"
    /\ configs["c1"].current_round = 2 * configs["c1"].max_rounds
    /\ Len(configs["c1"].conversation_history) = 5
    /\ Cardinality(RecentLowered(configs["c1"].conversation_history)) = 4
    /\ last.ret_bool

\* C4: for a state with current_round below max_rounds,
\* should_end_conversation is true when the history has at least 4 entries
\* and the last 4 hold at most 2 distinct lower-cased texts, false when the
\* last 4 lower-cased texts are all distinct, and false whenever the history
\* has fewer than 4 entries.
C4_RepetitionEnds ==
    LET config == configs["c1"]
        history == config.conversation_history
        distinct == Cardinality(RecentLowered(history))
    IN  ( /\ last.op = "should_end"
          /\ config.current_round < 2 * config.max_rounds )
        => /\ (Len(history) >= 4 /\ distinct <= 2) => last.ret_bool
           /\ (Len(history) >= 4 /\ distinct = 4) => ~last.ret_bool
           /\ Len(history) < 4 => ~last.ret_bool

\* below the limit, a history of five turns was found repetitive although
\* its last four texts are three different strings (two differ only in case)
\* and its first text is yet another one
C4_Witness ==
    LET history == configs["c1"].conversation_history
    IN  /\ last.op = "should_end"
        /\ configs["c1"].current_round < 2 * configs["c1"].max_rounds
        /\ Len(history) = 5
        /\ Cardinality({history[i].response : i \in 2..5}) = 3
        /\ Cardinality(RecentLowered(history)) = 2
        /\ Lower(history[1].response) \notin RecentLowered(history)
        /\ last.ret_bool

(***************************************************************************)
(* detect_autonomous_trigger on its own: the message and the candidate     *)
(* list are drawn by the initial state, the step applies the function and  *)
(* keeps the dict it returns at c1.                                        *)
(***************************************************************************)
\* "debate about ramen vs curry", "Cats vs Dogs", " Talk about Tea ",
\* "we discuss tea", "Discuss", "Lets chat", "hi",
\* "what do you think about tea", "argue about tea", "fight about  tea",
\* "A conversation ", "tea vs ", "debate about", "talk"
DetectMessages ==
    { <<"d","e","b","a","t","e"," ","a","b","o","u","t"," ","r","a","m","e","n"," ","v","s"," ","c","u","r","r","y">>,
      <<"C","a","t","s"," ","v","s"," ","D","o","g","s">>,
      <<" ","T","a","l","k"," ","a","b","o","u","t"," ","T","e","a"," ">>,
      <<"w","e"," ","d","i","s","c","u","s","s"," ","t","e","a">>,
      <<"D","i","s","c","u","s","s">>,
      <<"L","e","t","s"," ","c","h","a","t">>,
      <<"h","i">>,
      <<"w","h","a","t"," ","d","o"," ","y","o","u"," ","t","h","i","n","k"," ","a","b","o","u","t"," ","t","e","a">>,
      <<"a","r","g","u","e"," ","a","b","o","u","t"," ","t","e","a">>,
      <<"f","i","g","h","t"," ","a","b","o","u","t"," "," ","t","e","a">>,
      <<"A"," ","c","o","n","v","e","r","s","a","t","i","o","n"," ">>,
      <<"t","e","a"," ","v","s"," ">>,
      <<"d","e","b","a","t","e"," ","a","b","o","u","t">>,
      <<"t","a","l","k">> }

DetectLists ==
    { <<>>, <<"al">>, <<"al", "bo">>, <<"al", "bo", "cy">>, <<"naruto", "sasuke">> }

InitDetect ==
    /\ configs = [r \in ConfigRefs |-> NoConfig]
    /\ active_autonomous_chats = [g \in Groups |-> None]
    /\ group_chats = EmptyDict
    /\ \E m \in DetectMessages, ids \in DetectLists :
          last = [NoCall EXCEPT !.user_message = m, !.character_ids = ids]

ApplyDetect ==
    /\ last.op = "init"
    /\ LET config == detect_autonomous_trigger(last.user_message, last.character_ids)
       IN  /\ configs' = [configs EXCEPT !["c1"] = config]
           /\ last' = [last EXCEPT !.op = "detect_trigger",
                                   !.ret_bool = (config # NoConfig)]
    /\ UNCHANGED <<active_autonomous_chats, group_chats>>

NextDetect == ApplyDetect

SpecDetect == InitDetect /\ [][NextDetect]_vars

\* the trigger phrases of a debate, each followed by the text it captures,
\* and "<text> vs <text>", which captures the text before " vs "
TriggerPhrases ==
    { <<"d","e","b","a","t","e"," ","a","b","o","u","t"," ">>,
      <<"a","r","g","u","e"," ","a","b","o","u","t"," ">>,
      <<"d","i","s","c","u","s","s"," ">>,
      <<"w","h","a","t"," ","d","o"," ","y","o","u"," ",
        "t","h","i","n","k"," ","a","b","o","u","t"," ">>,
      <<"f","i","g","h","t"," ","a","b","o","u","t"," ">>,
      <<"t","a","l","k"," ","a","b","o","u","t"," ">> }

\* text follows a trigger phrase in s, or s reads "<text> vs <text>"
MatchesTriggerPhrase(s) ==
    \/ \E phrase \in TriggerPhrases :
          \E i \in Occurrences(phrase, s) : i + Len(phrase) <= Len(s)
    \/ \E i \in Occurrences(<<" ","v","s"," ">>, s) : i >= 2 /\ i + 4 <= Len(s)

\* the type and topic expected for each message
ExpectedDetect ==
    { <<<<"d","e","b","a","t","e"," ","a","b","o","u","t"," ","r","a","m","e","n"," ","v","s"," ","c","u","r","r","y">>, "debate", <<"r","a","m","e","n"," ","v","s"," ","c","u","r","r","y">>>>,   \* 'debate about ramen vs curry'
      <<<<"C","a","t","s"," ","v","s"," ","D","o","g","s">>, "debate", <<"c","a","t","s">>>>,   \* 'Cats vs Dogs'
      <<<<" ","T","a","l","k"," ","a","b","o","u","t"," ","T","e","a"," ">>, "debate", <<"t","e","a">>>>,   \* ' Talk about Tea '
      <<<<"w","e"," ","d","i","s","c","u","s","s"," ","t","e","a">>, "debate", <<"t","e","a">>>>,   \* 'we discuss tea'
      <<<<"D","i","s","c","u","s","s">>, "discussion", <<"D","i","s","c","u","s","s">>>>,   \* 'Discuss'
      <<<<"L","e","t","s"," ","c","h","a","t">>, "discussion", <<"L","e","t","s"," ","c","h","a","t">>>>,   \* 'Lets chat'
      <<<<"h","i">>, None, <<>>>>,   \* 'hi'
      <<<<"w","h","a","t"," ","d","o"," ","y","o","u"," ","t","h","i","n","k"," ","a","b","o","u","t"," ","t","e","a">>, "debate", <<"t","e","a">>>>,   \* 'what do you think about tea'
      <<<<"a","r","g","u","e"," ","a","b","o","u","t"," ","t","e","a">>, "debate", <<"t","e","a">>>>,   \* 'argue about tea'
      <<<<"f","i","g","h","t"," ","a","b","o","u","t"," "," ","t","e","a">>, "debate", <<"t","e","a">>>>,   \* 'fight about  tea'
      <<<<"A"," ","c","o","n","v","e","r","s","a","t","i","o","n"," ">>, "discussion", <<"A"," ","c","o","n","v","e","r","s","a","t","i","o","n"," ">>>>,   \* 'A conversation '
      <<<<"t","e","a"," ","v","s"," ">>, None, <<>>>>,   \* 'tea vs '
      <<<<"d","e","b","a","t","e"," ","a","b","o","u","t">>, None, <<>>>>,   \* 'debate about'
      <<<<"t","a","l","k">>, "discussion", <<"t","a","l","k">>>> }   \* 'talk'

\* C14: detect_autonomous_trigger returns, for a message matching a debate
\* trigger phrase, a debate spec whose topic is the captured text, whose
\* participants are the first two candidates (all candidates when fewer
\* than two) and whose max_rounds is 8; otherwise, for a message containing
\* a discussion keyword (discuss, talk, chat, conversation), a discussion
\* spec with the full message as topic, all candidates as participants and
\* max_rounds 6; otherwise none. For "debate about ramen vs curry" with
\* candidates [naruto, sasuke] the topic is "ramen vs curry".
C14_DetectResult ==
    last.op = "detect_trigger" =>
        LET config == configs["c1"]
            ids == last.character_ids
            message_lower == Strip(Lower(last.user_message))
            expected == CHOOSE e \in ExpectedDetect : e[1] = last.user_message
        IN  /\ config.type = expected[2]
            /\ config.topic = expected[3]
            /\ last.ret_bool = (config.type # None)
            /\ (config.type = "debate") = MatchesTriggerPhrase(message_lower)
            /\ config.type = "debate" =>
                  /\ config.participants = SubSeq(ids, 1, MinOf({2, Len(ids)}))
                  /\ config.max_rounds = 8
                  /\ config.current_round = 0
            /\ (config.type = "discussion") =
                  (/\ ~MatchesTriggerPhrase(message_lower)
                   /\ \E keyword \in { <<"d","i","s","c","u","s","s">>,
                                       <<"t","a","l","k">>, <<"c","h","a","t">>,
                                       <<"c","o","n","v","e","r","s","a","t","i","o","n">> } :
                         Contains(keyword, message_lower))
            /\ config.type = "discussion" =>
                  /\ config.topic = last.user_message
                  /\ config.participants = ids
                  /\ config.max_rounds = 6
                  /\ config.current_round = 0
            /\ (last.user_message = <<"d","e","b","a","t","e"," ","a","b","o","u","t"," ","r","a","m","e","n"," ","v","s"," ","c","u","r","r","y">> /\ ids = <<"naruto", "sasuke">>) =>
                  /\ config.topic = <<"r","a","m","e","n"," ","v","s"," ","c","u","r","r","y">>
                  /\ config.participants = <<"naruto", "sasuke">>

\* the claim's example has been evaluated
C14_Witness ==
    /\ last.op = "detect_trigger"
    /\ last.user_message = <<"d","e","b","a","t","e"," ","a","b","o","u","t"," ","r","a","m","e","n"," ","v","s"," ","c","u","r","r","y">>
    /\ last.character_ids = <<"naruto", "sasuke">>
    /\ configs["c1"].type = "debate"

(***************************************************************************)
(* analyze_message_intent followed by select_responding_characters on      *)
(* their own: the initial state draws the message, the candidate list, the *)
(* store and what the intent service does; the step runs the two calls.    *)
(***************************************************************************)
\* the characters a store may hold
FourDatabase ==
    [id \in {"al", "bo", "cy", "di"} |->
        [name |-> IF id = "al" THEN <<"A","l">> ELSE IF id = "bo" THEN <<"B","o">>
                  ELSE IF id = "cy" THEN <<"C","y">> ELSE <<"D","i">>]]

\* the character_database argument holding the characters `ids`
StoreOf(ids) == [id \in ids |-> FourDatabase[id]]

SelectStores == { {"al", "bo", "cy", "di"}, {"al", "cy"} }

SelectLists ==
    { <<>>, <<"al">>, <<"bo", "al">>, <<"cy", "al", "bo">>,
      <<"al", "bo", "cy", "di">> }

\* "hi", "Hello all!", "Hey Bo", "good morning everyone",
\* "what do you think", "tell me more", "lets debate", "ok", "why",
\* "Cy and Bo", "both of you", "team", "Whats up guys.", "@cy"
SelectMessages ==
    { <<"h","i">>, <<"H","e","l","l","o"," ","a","l","l","!">>, <<"H","e","y"," ","B","o">>, <<"g","o","o","d"," ","m","o","r","n","i","n","g"," ","e","v","e","r","y","o","n","e">>,
      <<"w","h","a","t"," ","d","o"," ","y","o","u"," ","t","h","i","n","k">>, <<"t","e","l","l"," ","m","e"," ","m","o","r","e">>, <<"l","e","t","s"," ","d","e","b","a","t","e">>, <<"o","k">>, <<"w","h","y">>,
      <<"C","y"," ","a","n","d"," ","B","o">>, <<"b","o","t","h"," ","o","f"," ","y","o","u">>, <<"t","e","a","m">>, <<"W","h","a","t","s"," ","u","p"," ","g","u","y","s",".">>, <<"@","c","y">> }

\* a content text that is JSON for `value`, and one that is not JSON
JsonText(value) == [well_formed |-> TRUE, value |-> value]
NotJson == [well_formed |-> FALSE, value |-> PyList(<<>>)]

\* an opinion dict with all four keys
Opinion(target_characters, response_count) ==
    PyDict(AllKeys, "specific", target_characters, response_count)

\* what the intent service does with a request
IntentReplies ==
    { [kind |-> "raise", content |-> NotJson],
      [kind |-> "no_choices", content |-> NotJson],
      [kind |-> "content", content |-> NotJson],
      [kind |-> "content", content |-> JsonText(Opinion(<< <<"A","L">> >>, 1))],
      [kind |-> "content", content |-> JsonText(Opinion(<< <<"B","o">>, <<"A","l">> >>, 2))],
      [kind |-> "content",
       content |-> JsonText(Opinion(<< <<"A","l">>, <<"B","o">>, <<"C","y">>, <<"D","i">> >>, 5))],
      [kind |-> "content", content |-> JsonText(Opinion(<< <<"A","l">> >>, 0))],
      [kind |-> "content", content |-> JsonText(Opinion(<< <<"A","l">>, <<"B","o">> >>, 0 - 1))],
      [kind |-> "content",
       content |-> JsonText(PyDict({"target_type", "target_characters", "reasoning"},
                                   "multiple", << <<"A","l">>, <<"B","o">>, <<"C","y">> >>, 0))],
      [kind |-> "content", content |-> JsonText(Opinion(<< <<"Z","e","d">> >>, 1))],
      [kind |-> "content", content |-> JsonText(Opinion(<< <<"A","l">>, <<"a","l">> >>, 2))],
      [kind |-> "content", content |-> JsonText(PyDict({}, None, <<>>, 0))],
      [kind |-> "content", content |-> JsonText(PyList(<< <<"A","l">> >>))] }

InitSelect ==
    /\ configs = [r \in ConfigRefs |-> NoConfig]
    /\ active_autonomous_chats = [g \in Groups |-> None]
    /\ group_chats = EmptyDict
    /\ \E m \in SelectMessages, ids \in SelectLists, store \in SelectStores,
          reply \in IntentReplies :
          last = [NoCall EXCEPT !.user_message = m, !.character_ids = ids,
                                !.store_ids = store, !.reply = reply]

ApplySelect ==
    /\ last.op = "init"
    /\ LET character_database == StoreOf(last.store_ids)
           intent_analysis ==
               analyze_message_intent(last.user_message, last.character_ids,
                                      character_database, last.reply)
       IN  last' = [last EXCEPT
                      !.op = "select",
                      !.intent = intent_analysis,
                      !.selected = select_responding_characters(
                                      intent_analysis, last.character_ids,
                                      character_database)]
    /\ UNCHANGED <<configs, active_autonomous_chats, group_chats>>

NextSelect == ApplySelect

SpecSelect == InitSelect /\ [][NextSelect]_vars

\* C15: when detect_character_mentions is non-empty,
\* select_responding_characters returns exactly the mentioned characters in
\* candidate order, whether or not the message is also a greeting or
\* group-directed and whatever the external intent opinion is; a message
\* containing the display name of one candidate of the store (and of no
\* other) yields exactly that character's id.
C15_MentionsWin ==
    last.op = "select" =>
        LET mentioned == last.intent.mentioned_characters
            ids == last.character_ids
            message_lower == Lower(last.user_message)
            Named(id) == /\ id \in last.store_ids
                         /\ Contains(Lower(FourDatabase[id].name), message_lower)
        IN  /\ mentioned # <<>> =>
                 /\ last.selected = Returned(mentioned)
                 /\ mentioned = SelectSeq(ids, LAMBDA id : id \in Range(mentioned))
            /\ mentioned = SelectSeq(ids, Named)
            /\ \A k \in 1..Len(ids) :
                  (Named(ids[k]) /\ \A j \in 1..Len(ids) : Named(ids[j]) => j = k)
                     => last.selected = Returned(<<ids[k]>>)

\* "Hello all!" is a greeting, is group-directed and holds the name of Al;
\* the opinion names Bo and Al; of [cy, al, bo] only al answers
C15_Witness ==
    /\ last.op = "select"
    /\ last.user_message = <<"H","e","l","l","o"," ","a","l","l","!">>
    /\ last.character_ids = <<"cy", "al", "bo">>
    /\ last.intent.is_greeting /\ last.intent.is_group_message
    /\ last.intent.ai_analysis.target_characters = << <<"B","o">>, <<"A","l">> >>
    /\ last.intent.mentioned_characters = <<"al">>
    /\ last.selected = Returned(<<"al">>)

\* C16: when no character is mentioned and the message is a greeting or is
\* group-directed, select_responding_characters returns all candidates in
\* candidate order, whatever the external intent opinion and the message
\* type are.
C16_GreetingOrGroupGetsAll ==
    last.op = "select" =>
        ((/\ last.intent.mentioned_characters = <<>>
          /\ last.intent.is_greeting \/ last.intent.is_group_message)
            => last.selected = Returned(last.character_ids))

\* "what do you think" is group-directed, is no greeting and names nobody;
\* the opinion names Al alone with response_count 1, and all four answer
C16_Witness ==
    /\ last.op = "select"
    /\ last.user_message = <<"w","h","a","t"," ","d","o"," ","y","o","u"," ","t","h","i","n","k">>
    /\ last.intent.is_group_message /\ ~last.intent.is_greeting
    /\ last.intent.message_type = "question"
    /\ last.intent.mentioned_characters = <<>>
    /\ last.intent.ai_analysis.target_characters = << <<"A","L">> >>
    /\ last.intent.ai_analysis.response_count = 1
    /\ last.selected = Returned(<<"al", "bo", "cy", "di">>)

\* C17: select_responding_characters returns a non-empty list whenever
\* candidate_ids is non-empty and an empty list only when candidate_ids is
\* empty, for every combination of mentions, greeting flag, group flag,
\* message type and external intent opinion (any response_count included).
C17_NonEmptyForCandidates ==
    last.op = "select" =>
        /\ ~last.selected.raised
        /\ (last.selected.ids = <<>>) = (last.character_ids = <<>>)

\* the response_count of an opinion dict as the code reads it
\* (ai_analysis.get('response_count', 2)), and the same within 1..3
CountOf(ai_analysis) ==
    IF "response_count" \in ai_analysis.keys THEN ai_analysis.response_count ELSE 2

Clamped(n) == IF n < 1 THEN 1 ELSE IF n > 3 THEN 3 ELSE n

\* C18: when rules 1-3 do not apply and the external intent opinion names
\* at least one candidate by display name (case-insensitively),
\* select_responding_characters returns those matched candidates truncated
\* to the opinion's response_count clamped to 1..3, so the result has
\* between 1 and 3 entries.
C18_OpinionTruncatedTo1to3 ==
    last.op = "select" =>
        LET ai_analysis == last.intent.ai_analysis
            matched == AiTargets(ai_analysis.target_characters, last.character_ids,
                                 StoreOf(last.store_ids))
        IN  (/\ last.intent.mentioned_characters = <<>>
             /\ ~last.intent.is_greeting /\ ~last.intent.is_group_message
             /\ ai_analysis.kind = "dict"
             /\ "target_characters" \in ai_analysis.keys
             /\ matched # <<>>)
               => /\ last.selected =
                        Returned(SubSeq(matched, 1,
                                        MinOf({Len(matched), Clamped(CountOf(ai_analysis))})))
                  /\ Len(last.selected.ids) >= 1
                  /\ Len(last.selected.ids) <= 3

\* the service failed: it raised, it answered without choices, or its
\* content is not JSON or is JSON for something else than an object with
\* the four keys the prompt asks for
IntentServiceFailed(reply) ==
    \/ reply.kind \in {"raise", "no_choices"}
    \/ /\ reply.kind = "content"
       /\ \/ ~reply.content.well_formed
          \/ reply.content.value.kind # "dict"
          \/ reply.content.value.keys # AllKeys

\* C19: on any failure of the external service (exception, no choices, or a
\* response that is not the expected JSON object) get_ai_intent_analysis
\* returns the fallback: target_type "general", target_characters the
\* display names of the first two candidates present in the store, and
\* response_count 1.
C19_FallbackOnFailure ==
    last.op = "select" =>
        LET ai_analysis == last.intent.ai_analysis
            known == SelectSeq(last.character_ids, LAMBDA id : id \in last.store_ids)
            first_two == [i \in 1..MinOf({2, Len(known)}) |-> FourDatabase[known[i]].name]
        IN  IntentServiceFailed(last.reply) =>
               /\ ai_analysis.kind = "dict"
               /\ ai_analysis.target_type = "general"
               /\ ai_analysis.target_characters = first_two
               /\ ai_analysis.response_count = 1

(***************************************************************************)
(* The group store (GroupChatManager.create_group_chat and                 *)
(* delete_group_chat of maincode.py) on st.session_state.group_chats.      *)
(***************************************************************************)
\* str.replace(' ', '_')
ReplaceSpaces(s) == [i \in 1..Len(s) |-> IF s[i] = " " THEN "_" ELSE s[i]]

\* group_id = group_name.lower().replace(' ', '_')
GroupIdOf(group_name) == ReplaceSpaces(Lower(group_name))

\* the dict create_group_chat stores
NewGroupChat(group_name, character_ids) ==
    [name |-> group_name, characters |-> character_ids, messages |-> <<>>,
     conversation_history |-> <<>>, last_speakers |-> <<>>]

\* dict[key] = value
DictSet(dict, key, value) ==
    [k \in DOMAIN dict \cup {key} |-> IF k = key THEN value ELSE dict[k]]

\* del dict[key]
DictDel(dict, key) == [k \in DOMAIN dict \ {key} |-> dict[k]]

\* create_group_chat testing only len(character_ids) < 2
CreateGroupChat_no_upper_limit(group_name, character_ids) ==
    LET call == [NoCall EXCEPT !.op = "create_group", !.group_name = group_name,
                               !.character_ids = character_ids]
    IN  /\ IF Len(character_ids) < 2
           THEN /\ last' = [call EXCEPT !.ret_bool = FALSE]
                /\ UNCHANGED group_chats
           ELSE /\ group_chats' = DictSet(group_chats, GroupIdOf(group_name),
                                          NewGroupChat(group_name, character_ids))
                /\ last' = [call EXCEPT !.ret_bool = TRUE]
        /\ UNCHANGED <<configs, active_autonomous_chats>>

\* create_group_chat(group_name, character_ids)
CreateGroupChat(group_name, character_ids) ==
    LET call == [NoCall EXCEPT !.op = "create_group", !.group_name = group_name,
                               !.character_ids = character_ids]
    IN  /\ IF Len(character_ids) < 2 \/ Len(character_ids) > 4
           THEN /\ last' = [call EXCEPT !.ret_bool = FALSE]
                /\ UNCHANGED group_chats
           ELSE /\ group_chats' = DictSet(group_chats, GroupIdOf(group_name),
                                          NewGroupChat(group_name, character_ids))
                /\ last' = [call EXCEPT !.ret_bool = TRUE]
        /\ UNCHANGED <<configs, active_autonomous_chats>>

\* delete_group_chat(group_id); `group_name` of the call record holds group_id
DeleteGroupChat(group_id) ==
    LET call == [NoCall EXCEPT !.op = "delete_group", !.group_name = group_id]
    IN  /\ IF group_id \in DOMAIN group_chats
           THEN /\ group_chats' = DictDel(group_chats, group_id)
                /\ last' = [call EXCEPT !.ret_bool = TRUE]
           ELSE /\ last' = [call EXCEPT !.ret_bool = FALSE]
                /\ UNCHANGED group_chats
        /\ UNCHANGED <<configs, active_autonomous_chats>>

\* group names handed to create_group_chat: "Team A", "team a", "Crew"
GroupNames == { <<"T","e","a","m"," ","A">>, <<"t","e","a","m"," ","a">>, <<"C","r","e","w">> }

\* member lists handed to create_group_chat, of 0 to 5 ids
MemberLists ==
    { <<>>, <<"al">>, <<"al", "bo">>, <<"al", "bo", "cy">>,
      <<"al", "bo", "cy", "di">>, <<"al", "bo", "cy", "di", "ed">> }

\* group ids handed to delete_group_chat: "team_a", "crew", "nope"
DeleteIds == { <<"t","e","a","m","_","a">>, <<"c","r","e","w">>, <<"n","o","p","e">> }

NextGroupChats ==
    \/ \E group_name \in GroupNames, character_ids \in MemberLists :
          CreateGroupChat(group_name, character_ids)
    \/ \E group_id \in DeleteIds : DeleteGroupChat(group_id)

SpecGroupChats == Init /\ [][NextGroupChats]_vars

\* C20: create_group_chat rejects any member list with fewer than 2 or more
\* than 4 character ids: it returns False and the set of stored group chats
\* is unchanged; a list of 2 to 4 ids is stored under the group's id; every
\* stored group chat therefore has between 2 and 4 members.
C20_GroupSizeChecked ==
    [][ /\ last'.op = "create_group" =>
              IF Len(last'.character_ids) < 2 \/ Len(last'.character_ids) > 4
              THEN ~last'.ret_bool /\ group_chats' = group_chats
              ELSE /\ last'.ret_bool
                   /\ GroupIdOf(last'.group_name) \in DOMAIN group_chats'
                   /\ group_chats'[GroupIdOf(last'.group_name)].characters =
                         last'.character_ids
        /\ \A group_id \in DOMAIN group_chats' :
              /\ Len(group_chats'[group_id].characters) >= 2
              /\ Len(group_chats'[group_id].characters) <= 4 ]_vars

\* a list of five ids has just been rejected while a group of four is stored
C20_Witness ==
    /\ last.op = "create_group"
    /\ Len(last.character_ids) = 5
    /\ ~last.ret_bool
    /\ <<"t","e","a","m","_","a">> \in DOMAIN group_chats
    /\ Len(group_chats[<<"t","e","a","m","_","a">>].characters) = 4

\* whether the text holds one of the words
HasWord(words, text) == \E word \in words : Contains(word, text)

\* C21: when rules 1-4 of select_responding_characters do not apply (nobody
\* is mentioned, the message is no greeting and not group-directed, and the
\* opinion names no candidate), the result depends only on the message
\* type: debate_trigger or question gives the first two candidates, request
\* and statement give the first candidate only; and the type is decided in
\* the order greeting, question, request, debate_trigger, statement.
C21_ResultByMessageType ==
    last.op = "select" =>
        LET intent == last.intent
            ids == last.character_ids
            message_lower == Strip(Lower(last.user_message))
            named == AiTargets(intent.ai_analysis.target_characters, ids,
                               StoreOf(last.store_ids))
            FirstOf(n) == SubSeq(ids, 1, MinOf({n, Len(ids)}))
        IN  /\ intent.message_type =
                 IF intent.is_greeting THEN "greeting"
                 ELSE IF HasWord({ <<"?">>, <<"w","h","a","t">>, <<"h","o","w">>, <<"w","h","y">>, <<"w","h","e","r","e">>,
                                   <<"w","h","e","n">>, <<"w","h","o">> }, message_lower)
                 THEN "question"
                 ELSE IF HasWord({ <<"t","e","l","l">>, <<"e","x","p","l","a","i","n">>, <<"d","e","s","c","r","i","b","e">>, <<"s","h","o","w">> },
                                 message_lower)
                 THEN "request"
                 ELSE IF HasWord({ <<"d","e","b","a","t","e">>, <<"a","r","g","u","e">>, <<"d","i","s","c","u","s","s">>, <<"f","i","g","h","t">> },
                                 message_lower)
                 THEN "debate_trigger"
                 ELSE "statement"
            /\ (/\ intent.mentioned_characters = <<>>
                /\ ~intent.is_greeting /\ ~intent.is_group_message
                /\ named = <<>>)
                  => last.selected =
                        Returned(IF intent.message_type \in {"debate_trigger", "question"}
                                 THEN FirstOf(2) ELSE FirstOf(1))

(***************************************************************************)
(* GroupChatManager.select_responding_characters_enhanced (maincode.py).   *)
(* st.session_state.character_database is the argument                    *)
(* `character_database`; an entry of recent_messages is                    *)
(* [role, character_id, character_name], with None for an absent key.      *)
(***************************************************************************)
\* str.split(): the maximal runs of characters that are not whitespace,
\* from position i on
RECURSIVE SplitFrom(_, _)
SplitFrom(s, i) ==
    LET starts == { k \in i..Len(s) : ~IsSpace(s[k]) /\ (k = 1 \/ IsSpace(s[k - 1])) }
        first == MinOf(starts)
        end == MinOf({ j \in first..Len(s) : j = Len(s) \/ IsSpace(s[j + 1]) })
    IN  IF starts = {} THEN <<>>
        ELSE <<SubSeq(s, first, end)>> \o SplitFrom(s, end + 1)

Split(s) == SplitFrom(s, 1)

UserMessage == [role |-> "user", character_id |-> None, character_name |-> <<>>]

CharacterMessage(character_id, character_name) ==
    [role |-> "character", character_id |-> character_id,
     character_name |-> character_name]

response_triggers ==
    { <<"w","h","y">>, <<"w","h","a","t">>, <<"h","o","w">>, <<"r","e","a","l","l","y">>, <<"d","i","s","a","g","r","e","e">>, <<"a","g","r","e","e">>, <<"t","h","i","n","k">>, <<"?">> }

group_keywords ==
    { <<"a","l","l">>, <<"e","v","e","r","y","o","n","e">>, <<"i","n","t","r","o","d","u","c","e">>, <<"t","e","l","l"," ","m","e"," ","a","b","o","u","t">>, <<"w","h","a","t"," ","d","o"," ","y","o","u"," ","a","l","l">>,
      <<"h","o","w"," ","a","r","e"," ","y","o","u">>, <<"w","h","o"," ","a","r","e"," ","y","o","u">>, <<"y","o","u","r"," ","t","h","o","u","g","h","t","s">>, <<"o","p","i","n","i","o","n","s">>, <<"d","i","s","c","u","s","s">> }

\* mentioned_chars of select_responding_characters_enhanced
mentioned_chars(user_message, character_ids, character_database) ==
    SelectSeq(character_ids,
              LAMBDA char_id :
                 /\ char_id \in DOMAIN character_database
                 /\ Contains(Lower(character_database[char_id].name),
                             Lower(user_message)))

\* whether the branch of lines 989-999 returns
RepliesToCharacter(user_message, recent_messages) ==
    /\ Len(recent_messages) > 0
    /\ recent_messages[Len(recent_messages)].role = "character"
    /\ \E trigger \in response_triggers : Contains(trigger, Lower(user_message))

\* lines 1008-1021: the selection by group keywords, length and '?'
SelectByShape(user_message, character_ids) ==
    IF \E keyword \in group_keywords : Contains(keyword, Lower(user_message))
    THEN character_ids
    ELSE IF Len(Split(user_message)) <= 3 THEN SliceTo(character_ids, 2)
    ELSE IF Contains(<<"?">>, user_message)
    THEN SliceTo(character_ids, MinOf({3, Len(character_ids)}))
    ELSE SliceTo(character_ids, MinOf({2, Len(character_ids)}))

\* select_responding_characters_enhanced that does not leave out the last speaker
select_responding_characters_enhanced_keeps_last(user_message, character_ids, recent_messages, character_database) ==
    LET mentioned == mentioned_chars(user_message, character_ids, character_database)
    IN  IF Len(mentioned) > 0 THEN mentioned
        ELSE IF RepliesToCharacter(user_message, recent_messages)
        THEN SliceTo(character_ids, 2)
        ELSE SelectByShape(user_message, character_ids)

\* select_responding_characters_enhanced that tests '?' before the word count
select_responding_characters_enhanced_question_first(user_message, character_ids, recent_messages, character_database) ==
    LET mentioned == mentioned_chars(user_message, character_ids, character_database)
        last_char_id == recent_messages[Len(recent_messages)].character_id
        other_chars == SelectSeq(character_ids, LAMBDA c : c # last_char_id)
    IN  IF Len(mentioned) > 0 THEN mentioned
        ELSE IF RepliesToCharacter(user_message, recent_messages)
        THEN IF Len(other_chars) >= 2 THEN SliceTo(other_chars, 2)
             ELSE Append(other_chars, last_char_id)
        ELSE IF \E keyword \in group_keywords : Contains(keyword, Lower(user_message))
        THEN character_ids
        ELSE IF Contains(<<"?">>, user_message)
        THEN SliceTo(character_ids, MinOf({3, Len(character_ids)}))
        ELSE IF Len(Split(user_message)) <= 3 THEN SliceTo(character_ids, 2)
        ELSE SliceTo(character_ids, MinOf({2, Len(character_ids)}))

\* select_responding_characters_enhanced(user_message, character_ids, recent_messages)
select_responding_characters_enhanced(user_message, character_ids, recent_messages, character_database) ==
    LET mentioned == mentioned_chars(user_message, character_ids, character_database)
        last_char_id == recent_messages[Len(recent_messages)].character_id
        other_chars == SelectSeq(character_ids, LAMBDA c : c # last_char_id)
    IN  IF Len(mentioned) > 0 THEN mentioned
        ELSE IF RepliesToCharacter(user_message, recent_messages)
        THEN IF Len(other_chars) >= 2 THEN SliceTo(other_chars, 2)
             ELSE Append(other_chars, last_char_id)
        ELSE SelectByShape(user_message, character_ids)

(***************************************************************************)
(* select_responding_characters_enhanced on its own: the initial state     *)
(* draws the message, the candidates, the store and the recent messages.   *)
(***************************************************************************)
\* "hi", "why", "so far?", "Bo is right", "I really like this one",
\* "i disagree", "is it so far away?", "this is a long message",
\* "hello everyone"
EnhancedMessages ==
    { <<"h","i">>, <<"w","h","y">>, <<"s","o"," ","f","a","r","?">>, <<"B","o"," ","i","s"," ","r","i","g","h","t">>, <<"I"," ","r","e","a","l","l","y"," ","l","i","k","e"," ","t","h","i","s"," ","o","n","e">>,
      <<"i"," ","d","i","s","a","g","r","e","e">>, <<"i","s"," ","i","t"," ","s","o"," ","f","a","r"," ","a","w","a","y","?">>, <<"t","h","i","s"," ","i","s"," ","a"," ","l","o","n","g"," ","m","e","s","s","a","g","e">>,
      <<"h","e","l","l","o"," ","e","v","e","r","y","o","n","e">> }

EnhancedLists ==
    { <<>>, <<"al">>, <<"al", "bo">>, <<"cy", "al", "bo">>,
      <<"al", "bo", "cy", "di">> }

\* recent messages: none, the user's, and ones whose last entry is a
\* character's (bo, al, or di)
RecentHistories ==
    { <<>>,
      << UserMessage >>,
      << UserMessage, CharacterMessage("bo", <<"B","o">>) >>,
      << CharacterMessage("bo", <<"B","o">>), UserMessage, CharacterMessage("al", <<"A","l">>) >>,
      << CharacterMessage("di", <<"D","i">>) >> }

InitEnhanced ==
    /\ configs = [r \in ConfigRefs |-> NoConfig]
    /\ active_autonomous_chats = [g \in Groups |-> None]
    /\ group_chats = EmptyDict
    /\ \E m \in EnhancedMessages, ids \in EnhancedLists, store \in SelectStores,
          recent \in RecentHistories :
          last = [NoCall EXCEPT !.user_message = m, !.character_ids = ids,
                                !.store_ids = store, !.recent_messages = recent]

ApplyEnhanced ==
    /\ last.op = "init"
    /\ last' = [last EXCEPT
                  !.op = "select_enhanced",
                  !.selected = Returned(select_responding_characters_enhanced(
                                           last.user_message, last.character_ids,
                                           last.recent_messages,
                                           StoreOf(last.store_ids)))]
    /\ UNCHANGED <<configs, active_autonomous_chats, group_chats>>

NextEnhanced == ApplyEnhanced

SpecEnhanced == InitEnhanced /\ [][NextEnhanced]_vars

\* the arguments and the result of the latest select_responding_characters_enhanced call
EnhancedMentioned ==
    mentioned_chars(last.user_message, last.character_ids, StoreOf(last.store_ids))

EnhancedLastSpeaker == last.recent_messages[Len(last.recent_messages)].character_id

EnhancedReplies ==
    /\ Len(last.recent_messages) > 0
    /\ last.recent_messages[Len(last.recent_messages)].role = "character"
    /\ HasWord(response_triggers, Lower(last.user_message))

\* C22: in select_responding_characters_enhanced, when no character is
\* mentioned, the most recent history entry has role 'character' and the
\* message holds a reply-indicating word, the result is made of candidates
\* other than the last speaker, at most two of them (the first ones, in the
\* candidates' order), and holds the last speaker only when fewer than two
\* other candidates exist.
C22_ReplyToCharacter ==
    (last.op = "select_enhanced" /\ EnhancedMentioned = <<>> /\ EnhancedReplies) =>
        LET others == SelectSeq(last.character_ids,
                                LAMBDA c : c # EnhancedLastSpeaker)
            result == last.selected.ids
            picked == SelectSeq(result, LAMBDA c : c # EnhancedLastSpeaker)
        IN  /\ ~last.selected.raised
            /\ picked = SubSeq(others, 1, MinOf({2, Len(others)}))
            /\ EnhancedLastSpeaker \in Range(result) => Len(others) < 2

\* a reply to a character who is one of three candidates
C22_Witness ==
    /\ last.op = "select_enhanced" /\ EnhancedMentioned = <<>> /\ EnhancedReplies
    /\ Len(last.character_ids) = 3
    /\ EnhancedLastSpeaker \in Range(last.character_ids)
    /\ Len(last.selected.ids) = 2

\* C23: in select_responding_characters_enhanced, when no mention and no
\* reply-to-character rule applies and the message is not group-addressed, a
\* message of at most 3 words selects the first two candidates, otherwise a
\* message containing '?' the first min(3, n) candidates, otherwise the
\* first min(2, n); and mentioned characters are returned before any of
\* these rules is looked at.
C23_SelectionByShape ==
    last.op = "select_enhanced" =>
        LET ids == last.character_ids
            n == Len(ids)
            FirstOf(k) == SubSeq(ids, 1, MinOf({k, n}))
            words == Len(Split(last.user_message))
        IN  /\ EnhancedMentioned # <<>> => last.selected = Returned(EnhancedMentioned)
            /\ (/\ EnhancedMentioned = <<>>
                /\ ~EnhancedReplies
                /\ ~HasWord(group_keywords, Lower(last.user_message)))
                  => last.selected =
                        Returned(IF words <= 3 THEN FirstOf(2)
                                 ELSE IF Contains(<<"?">>, last.user_message)
                                 THEN FirstOf(MinOf({3, n}))
                                 ELSE FirstOf(MinOf({2, n})))

\* a short question put to four candidates, outside a reply to a character
C23_Witness ==
    /\ last.op = "select_enhanced" /\ EnhancedMentioned = <<>> /\ ~EnhancedReplies
    /\ ~HasWord(group_keywords, Lower(last.user_message))
    /\ Len(Split(last.user_message)) <= 3
    /\ Contains(<<"?">>, last.user_message)
    /\ Len(last.character_ids) = 4
    /\ Len(last.selected.ids) = 2

\* C27: both responder-selection policies return only ids that are members
\* of the candidate list passed in, and never the same id twice.
C27_OnlyCandidatesOnce ==
    (last.op \in {"select", "select_enhanced"} /\ ~last.selected.raised) =>
        LET result == last.selected.ids
        IN  /\ Range(result) \subseteq Range(last.character_ids)
            /\ \A i, j \in 1..Len(result) : result[i] = result[j] => i = j

(***************************************************************************)
(* GroupChatManager.calculate_enhanced_relevance (maincode.py).  The score *)
(* is kept in tenths: 6 stands for 0.6.  A character is                    *)
(* [name, powers_abilities, personality], an empty text standing for an    *)
(* absent or empty description.                                            *)
(***************************************************************************)
BaseScore == 6
NameBonus == 4
SpeakerBonus == 2
SpeakerWindow == 3
PowersWords == 5
PersonalityWords == 5
KeywordLength == 3
KeywordCap == 3
ScoreCap == 10

\* whether one of the last SpeakerWindow recent messages is the character's
SpokeRecently(character, recent_messages) ==
    \E i \in 1..Len(recent_messages) :
        /\ i > Len(recent_messages) - SpeakerWindow
        /\ recent_messages[i].role = "character"
        /\ recent_messages[i].character_name = character.name

\* char_keywords: the first words of the two descriptions, lowered
char_keywords(character, powers_words, personality_words) ==
    (IF Len(character.powers_abilities) > 0
     THEN SliceTo(Split(Lower(character.powers_abilities)), powers_words)
     ELSE <<>>)
    \o (IF Len(character.personality) > 0
        THEN SliceTo(Split(Lower(character.personality)), personality_words)
        ELSE <<>>)

\* keyword_matches: one for every keyword, counted as often as it is listed
keyword_matches(keywords, user_message) ==
    Cardinality({ i \in 1..Len(keywords) :
                     /\ Len(keywords[i]) > KeywordLength
                     /\ Contains(keywords[i], Lower(user_message)) })

\* calculate_enhanced_relevance that reads three words of the personality
calculate_enhanced_relevance_three(user_message, character, recent_messages) ==
    LET named == IF Contains(Lower(character.name), Lower(user_message))
                 THEN BaseScore + NameBonus ELSE BaseScore
        spoke == IF SpokeRecently(character, recent_messages)
                 THEN named + SpeakerBonus ELSE named
        matches == keyword_matches(char_keywords(character, PowersWords, 3),
                                   user_message)
    IN  MinOf({spoke + MinOf({matches, KeywordCap}), ScoreCap})

\* calculate_enhanced_relevance(user_message, character, recent_messages)
calculate_enhanced_relevance(user_message, character, recent_messages) ==
    LET named == IF Contains(Lower(character.name), Lower(user_message))
                 THEN BaseScore + NameBonus ELSE BaseScore
        spoke == IF SpokeRecently(character, recent_messages)
                 THEN named + SpeakerBonus ELSE named
        matches == keyword_matches(char_keywords(character, PowersWords,
                                                 PersonalityWords),
                                   user_message)
    IN  MinOf({spoke + MinOf({matches, KeywordCap}), ScoreCap})

(***************************************************************************)
(* calculate_enhanced_relevance on its own                                 *)
(***************************************************************************)
\* Al: powers "Fire magic", personality "calm wise kind but brave"
\* Bo: no powers, personality "shy"
\* Cy: powers "ice storm wind rain hail snow", no personality
RelevanceCharacters ==
    { [name |-> <<"A","l">>, powers_abilities |-> <<"F","i","r","e"," ","m","a","g","i","c">>,
       personality |-> <<"c","a","l","m"," ","w","i","s","e"," ","k","i","n","d"," ","b","u","t"," ","b","r","a","v","e">>],
      [name |-> <<"B","o">>, powers_abilities |-> <<>>, personality |-> <<"s","h","y">>],
      [name |-> <<"C","y">>, powers_abilities |-> <<"i","c","e"," ","s","t","o","r","m"," ","w","i","n","d"," ","r","a","i","n"," ","h","a","i","l"," ","s","n","o","w">>,
       personality |-> <<>>] }

\* "hi", "be brave", "Al is brave", "calm wise kind fire", "use fire magic, al",
\* "snow and rain", "so shy"
RelevanceMessages ==
    { <<"h","i">>, <<"b","e"," ","b","r","a","v","e">>, <<"A","l"," ","i","s"," ","b","r","a","v","e">>, <<"c","a","l","m"," ","w","i","s","e"," ","k","i","n","d"," ","f","i","r","e">>,
      <<"u","s","e"," ","f","i","r","e"," ","m","a","g","i","c",","," ","a","l">>, <<"s","n","o","w"," ","a","n","d"," ","r","a","i","n">>, <<"s","o"," ","s","h","y">> }

InitRelevance ==
    /\ configs = [r \in ConfigRefs |-> NoConfig]
    /\ active_autonomous_chats = [g \in Groups |-> None]
    /\ group_chats = EmptyDict
    /\ \E m \in RelevanceMessages, character \in RelevanceCharacters,
          recent \in RecentHistories \cup
             { << CharacterMessage("al", <<"A","l">>), UserMessage, UserMessage,
                  UserMessage >> } :
          last = [NoCall EXCEPT !.user_message = m, !.character = character,
                                !.recent_messages = recent]

ApplyRelevance ==
    /\ last.op = "init"
    /\ last' = [last EXCEPT
                  !.op = "relevance",
                  !.score = calculate_enhanced_relevance(
                               last.user_message, last.character,
                               last.recent_messages)]
    /\ UNCHANGED <<configs, active_autonomous_chats, group_chats>>

NextRelevance == ApplyRelevance

SpecRelevance == InitRelevance /\ [][NextRelevance]_vars

\* the words of a description the claim counts as keywords
FirstWords(text, n) ==
    LET words == Split(Lower(text)) IN SubSeq(words, 1, MinOf({n, Len(words)}))

\* the score, in tenths, with n words of the personality as keywords
ScoreWith(n) ==
    LET message_lower == Lower(last.user_message)
        keywords == FirstWords(last.character.powers_abilities, 5)
                       \o FirstWords(last.character.personality, n)
        matched == { i \in 1..Len(keywords) :
                        Len(keywords[i]) > 3 /\ Contains(keywords[i], message_lower) }
        spoke == \E i \in 1..Len(last.recent_messages) :
                    /\ Len(last.recent_messages) - i < 3
                    /\ last.recent_messages[i].role = "character"
                    /\ last.recent_messages[i].character_name = last.character.name
        sum == 6 + (IF Contains(Lower(last.character.name), message_lower) THEN 4 ELSE 0)
                 + (IF spoke THEN 2 ELSE 0)
                 + MinOf({Cardinality(matched), 3})
    IN  MinOf({sum, 10})

\* C24 as stated: calculate_enhanced_relevance returns a value in [0.6, 1.0]:
\* 0.6, plus 0.4 if the name is in the message, plus 0.2 if the character
\* spoke one of the last 3 entries, plus 0.1 per matched keyword up to 0.3,
\* capped at 1.0, the keywords being the first 5 words of the powers and the
\* first 3 words of the personality, each longer than 3 characters.
C24_RelevanceAsClaimed ==
    last.op = "relevance" => last.score \in 6..10 /\ last.score = ScoreWith(3)

\* C24 amended: the same, the keywords being the first 5 words of the powers
\* and the first 5 words of the personality.
C24_RelevanceFiveWords ==
    last.op = "relevance" => last.score \in 6..10 /\ last.score = ScoreWith(5)

\* the message matches the fifth word of the personality only
C24_Witness ==
    /\ last.op = "relevance"
    /\ ScoreWith(5) # ScoreWith(3)
    /\ last.score = 7

(***************************************************************************)
(* GroupChatManager.generate_group_response (maincode.py).                 *)
(* st.session_state.group_chats is the variable group_chats; the chatbot's *)
(* client, st.session_state.character_database and                         *)
(* st.session_state.messages are the arguments `has_client`,               *)
(* `character_database` and `messages`; `plan[i]` is what the generation   *)
(* service does with the request made for the i-th responder.              *)
(***************************************************************************)
ContextMessages == 10
FallbackRelevance == 3

\* .strip() and the removal of one pair of wrapping quotes
CleanResponse(content) ==
    LET response_text == Strip(content)
    IN  IF /\ Len(response_text) > 0
           /\ response_text[1] = "\""
           /\ response_text[Len(response_text)] = "\""
        THEN SubSeq(response_text, 2, Len(response_text) - 1)
        ELSE response_text

\* the entry of the except branch
ThinkingEntry(char_id, character_database) ==
    LET char_name == IF char_id \in DOMAIN character_database
                     THEN character_database[char_id].name
                     ELSE <<"C","h","a","r","a","c","t","e","r">>
    IN  [character_id |-> char_id,
         character_name |-> char_name,
         response |-> <<"*">> \o char_name \o <<" ","i","s"," ","t","h","i","n","k","i","n","g",".",".",".","*">>,
         relevance_score |-> FallbackRelevance]

\* one pass of the loop body (lines 924-966): the entries it appends
ResponsesFor(char_id, outcome, user_message, character_database, recent_messages) ==
    IF char_id \notin DOMAIN character_database \/ outcome.kind = "raise"
    THEN << ThinkingEntry(char_id, character_database) >>
    ELSE IF outcome.kind = "content" /\ Len(outcome.content) > 0
                                     /\ Len(CleanResponse(outcome.content)) > 0
    THEN << [character_id |-> char_id,
             character_name |-> character_database[char_id].name,
             response |-> CleanResponse(outcome.content),
             relevance_score |-> calculate_enhanced_relevance(
                                    user_message, character_database[char_id],
                                    recent_messages)] >>
    ELSE <<>>

\* the loop over responding_chars from position i on
RECURSIVE ResponsesFrom(_, _, _, _, _, _)
ResponsesFrom(i, responding_chars, plan, user_message, character_database, recent_messages) ==
    IF i > Len(responding_chars) THEN <<>>
    ELSE ResponsesFor(responding_chars[i], plan[i], user_message,
                      character_database, recent_messages)
         \o ResponsesFrom(i + 1, responding_chars, plan, user_message,
                          character_database, recent_messages)

\* generate_group_response(user_message, group_id); `group_name` of the
\* call record holds group_id, `selected` the responders and `ret_msgs`
\* the returned list
GenerateGroupResponse(user_message, group_id, has_client, character_database, messages, plan) ==
    LET recent_messages == LastN(messages, ContextMessages)
        call == [NoCall EXCEPT !.op = "group_response",
                               !.user_message = user_message,
                               !.group_name = group_id,
                               !.store_ids = DOMAIN character_database,
                               !.recent_messages = recent_messages,
                               !.plan = plan]
        valid_chars == SelectSeq(group_chats[group_id].characters,
                                 LAMBDA char_id : char_id \in DOMAIN character_database)
        responding_chars == select_responding_characters_enhanced(
                                user_message, valid_chars, recent_messages,
                                character_database)
    IN  /\ IF ~has_client \/ group_id \notin DOMAIN group_chats
           THEN last' = call
           ELSE IF valid_chars = <<>>
           THEN last' = [call EXCEPT
                            !.character_ids = group_chats[group_id].characters]
           ELSE last' = [call EXCEPT
                            !.character_ids = group_chats[group_id].characters,
                            !.selected = Returned(responding_chars),
                            !.ret_msgs = ResponsesFrom(1, responding_chars, plan,
                                                       user_message,
                                                       character_database,
                                                       recent_messages)]
        /\ UNCHANGED <<configs, active_autonomous_chats, group_chats>>

\* the stores handed over: the characters with their descriptions
ProfileStores ==
    LET ProfileOf(id) == CHOOSE c \in RelevanceCharacters : c.name = FourDatabase[id].name
    IN  { [id \in ids |-> ProfileOf(id)] : ids \in { {"al", "bo", "cy"}, {"al", "cy"}, {} } }

\* "hello everyone", "hi", "Bo is right", "this is a long message"
GroupMessages ==
    { <<"h","e","l","l","o"," ","e","v","e","r","y","o","n","e">>, <<"h","i">>, <<"B","o"," ","i","s"," ","r","i","g","h","t">>, <<"t","h","i","s"," ","i","s"," ","a"," ","l","o","n","g"," ","m","e","s","s","a","g","e">> }

\* st.session_state.messages at the call: the caller has appended the
\* user's message
SessionMessages ==
    { << UserMessage >>,
      << UserMessage, CharacterMessage("bo", <<"B","o">>), UserMessage >> }

\* what the service does with the requests of one call: it answers with a
\* text wrapped in quotes, a blank text or a lone quote, it raises, or it
\* answers without choices
ServicePlans ==
    LET QuotedContent == [kind |-> "content", content |-> <<"\"","Y","e","s","\"">>]
        BlankContent == [kind |-> "content", content |-> <<" ">>]
        QuoteContent == [kind |-> "content", content |-> <<"\"">>]
        ServiceRaises == [kind |-> "raise", content |-> <<>>]
        NoChoices == [kind |-> "no_choices", content |-> <<>>]
    IN  { << QuotedContent, QuotedContent, QuotedContent, QuotedContent >>,
          << ServiceRaises, QuotedContent, QuotedContent, QuotedContent >>,
          << QuotedContent, BlankContent, ServiceRaises, QuotedContent >>,
          << NoChoices, QuotedContent, QuoteContent, QuotedContent >> }

\* the group "Crew" is created with two or three members and deleted; the
\* groups "crew" and "nope" are asked for
NextGroupResponse ==
    \/ \E character_ids \in { <<"al", "bo">>, <<"cy", "bo", "al">> } :
          CreateGroupChat(<<"C","r","e","w">>, character_ids)
    \/ \E group_id \in { <<"c","r","e","w">>, <<"n","o","p","e">> } : DeleteGroupChat(group_id)
    \/ \E user_message \in GroupMessages, group_id \in { <<"c","r","e","w">>, <<"n","o","p","e">> },
          has_client \in BOOLEAN, character_database \in ProfileStores,
          messages \in SessionMessages, plan \in ServicePlans :
          GenerateGroupResponse(user_message, group_id, has_client,
                                character_database, messages, plan)

SpecGroupResponse == Init /\ [][NextGroupResponse]_vars

\* the request for the i-th responder of the latest call failed: the
\* service raised, or its answer holds no text
GenerationFailed(i) ==
    \/ last.plan[i].kind # "content"
    \/ Len(CleanResponse(last.plan[i].content)) = 0

\* C25: generate_group_response never raises to its caller; a generation
\* failure (service error or empty response) for one selected responder
\* gives the fallback entry '*<name> is thinking...*' for that character and
\* the other responders are still processed, so the returned list holds one
\* entry for every selected responder, in the responders' order.
C25_FailureGivesFallback ==
    last.op = "group_response" =>
        LET responding_chars == last.selected.ids
            responses == last.ret_msgs
        IN  /\ ~last.selected.raised
            /\ Len(responses) = Len(responding_chars)
            /\ \A i \in 1..Len(responding_chars) :
                  /\ responses[i].character_id = responding_chars[i]
                  /\ GenerationFailed(i) =>
                        responses[i].response =
                           <<"*">> \o responses[i].character_name
                                   \o <<" ","i","s"," ","t","h","i","n","k","i","n","g",".",".",".","*">>

\* C26: an active autonomous conversation whose participants all exist in
\* the store is removed from the registry after at most 2 x max_rounds + 1
\* calls of generate_autonomous_response, whatever the generation service
\* returns on each call.  A call that neither removes the conversation nor
\* advances current_round leaves the state as it was and can be repeated
\* without end, so the bound holds exactly when every such call either
\* removes the conversation or advances current_round by half a round.
C26_EveryCallProgresses ==
    [][ ( /\ last'.op = "generate"
          /\ is_autonomous_active(last'.group_id)
          /\ Range(ConfigOf(last'.group_id).participants) \subseteq last'.store_ids )
        => LET g == last'.group_id
               ref == active_autonomous_chats[g]
           IN  \/ active_autonomous_chats'[g] = None
               \/ configs'[ref].current_round = configs[ref].current_round + TurnStep
      ]_vars

\* the conversation registered for the group was started with round 0:
\* start empties the history and every turn adds one entry and half a round
StartedAtRoundZero(config) ==
    config.current_round = TurnStep * Len(config.conversation_history)

\* C28: in every reachable state of a conversation started with round 0,
\* current_round never exceeds max_rounds and the history never holds more
\* than 2 x max_rounds entries; no character turn is generated once
\* current_round has reached max_rounds.
C28_RoundsBounded ==
    [][ /\ \A g \in Groups :
              (active_autonomous_chats'[g] # None
               /\ StartedAtRoundZero(configs'[active_autonomous_chats'[g]]))
              => LET config == configs'[active_autonomous_chats'[g]]
                 IN  /\ config.current_round <= HalvesPerRound * config.max_rounds
                     /\ Len(config.conversation_history) <= 2 * config.max_rounds
        /\ ( /\ last'.op = "generate"
             /\ is_autonomous_active(last'.group_id)
             /\ ConfigOf(last'.group_id).current_round
                   >= HalvesPerRound * ConfigOf(last'.group_id).max_rounds )
           => /\ configs' = configs
              /\ \A i \in 1..Len(last'.ret_msgs) :
                    last'.ret_msgs[i].character_id = "system"
      ]_vars

\* a conversation started with round 0 that has reached max_rounds
C28_Witness ==
    \E g \in Groups :
        /\ is_autonomous_active(g)
        /\ StartedAtRoundZero(ConfigOf(g))
        /\ ConfigOf(g).current_round = HalvesPerRound * ConfigOf(g).max_rounds
        /\ Len(ConfigOf(g).conversation_history) = 2 * ConfigOf(g).max_rounds

\* C29: in every reachable state of an active conversation, last_speaker is
\* None exactly when the history is empty and otherwise is the speaker of
\* the last history entry; every speaker recorded in the history is one of
\* the conversation's participants, and was in the character store handed
\* to the call that recorded the turn.
C29_SpeakersConsistent ==
    [][ /\ \A g \in Groups :
              active_autonomous_chats'[g] # None
              => LET config == configs'[active_autonomous_chats'[g]]
                     history == config.conversation_history
                 IN  /\ (config.last_speaker = None) <=> (history = <<>>)
                     /\ history # <<>> =>
                           config.last_speaker = history[Len(history)].speaker
                     /\ \A i \in 1..Len(history) :
                           history[i].speaker \in Range(config.participants)
        /\ \A ref \in ConfigRefs :
              Len(configs'[ref].conversation_history)
                 > Len(configs[ref].conversation_history)
              => /\ last'.op = "generate"
                 /\ configs'[ref].conversation_history =
                       Append(configs[ref].conversation_history,
                              configs'[ref].conversation_history[
                                 Len(configs'[ref].conversation_history)])
                 /\ configs'[ref].last_speaker \in last'.store_ids
      ]_vars

\* an active conversation of two participants after its second turn
C29_Witness ==
    \E g \in Groups :
        /\ is_autonomous_active(g)
        /\ Len(ConfigOf(g).participants) = 2
        /\ Len(ConfigOf(g).conversation_history) = 2
        /\ ConfigOf(g).last_speaker = ConfigOf(g).conversation_history[2].speaker
        /\ ConfigOf(g).conversation_history[1].speaker
              # ConfigOf(g).conversation_history[2].speaker

\* C30: for a group with no registered autonomous conversation,
\* generate_autonomous_response returns an empty list, and it,
\* handle_user_interruption and end_autonomous_conversation create no entry
\* for that group and change no entry of the registry nor any registered
\* state; a group becomes active only through
\* start_autonomous_conversation for that group.
C30_IdleGroupFrame ==
    [][ /\ ( /\ last'.op \in {"generate", "interrupt", "end"}
             /\ ~is_autonomous_active(last'.group_id) )
           => /\ active_autonomous_chats' = active_autonomous_chats
              /\ configs' = configs
              /\ ~last'.was_active
              /\ last'.op = "generate" => last'.ret_msgs = <<>>
        /\ \A g \in Groups :
              (~is_autonomous_active(g) /\ active_autonomous_chats'[g] # None)
              => last'.op = "start" /\ last'.group_id = g
      ]_vars

\* a stop-word message for an idle group while the other group is active
C30_Witness ==
    /\ last.op = "interrupt"
    /\ ~last.was_active
    /\ last.ret_bool
    /\ ~is_autonomous_active(last.group_id)
    /\ \E g \in Groups : g # last.group_id /\ is_autonomous_active(g)

====
